---- MODULE Spec2Model ----
(***************************************************************************)
(* Model of the WhatsUpGemini extension: the token service of the          *)
(* background service worker (jwt-utils.js, background.js), the page       *)
(* validator (page-jwt-utils.js), the in-page extractor (inject.js) and    *)
(* the content script (content.js).                                        *)
(*                                                                         *)
(* Conventions.  A JavaScript object is a function from its keys to its    *)
(* values; an absent key is a key outside the DOMAIN.  A token string is   *)
(* kept as the sequence of its dot-separated parts; a part is either the   *)
(* base64url text of a JSON document, the base64url text of an HMAC, or    *)
(* text that does not decode to JSON.                                      *)
(***************************************************************************)
EXTENDS Integers, Sequences, FiniteSets, Bags, TLC

\* ------------------------------------------------------------- bounds

\* Voice messages rendered on the page (their data-id values are 1..NumItems).
NumItems == 2
\* Secret keys crypto.getRandomValues may produce (1..NumKeys).
NumKeys == 2
\* Value of the clock (seconds) in the initial state.
StartTime == 1000
\* Clock advances a behaviour of the token specification may take.
MaxTicks == 2
\* getAudioData requests a behaviour may start: clicks on transcribe buttons
\* and events dispatched by other scripts of the page, taken together.
MaxRequests == 2
\* Times the browser may tear the service worker down in a behaviour.
MaxTeardowns == 1
\* getValidToken calls that may be under way at once.
MaxCalls == 2
\* Ports chrome.runtime.connect may open in a behaviour.
MaxPorts == 3
\* Seconds the keep-alive clock may reach.
MaxClock == 520

\* -------------------------------------------------- program constants

\* this.tokenExpiry = 15 * 60 * 1000 (milliseconds).
tokenExpiry == 900000
\* needsRefresh: timeUntilExpiry < 120.
RefreshThreshold == 120
\* setTimeout(() => port.disconnect(), 250 * 1000), in seconds.
KeepAliveTimeout == 250
\* setTimeout(connectKeepAlivePort, 5000), in seconds.
ReconnectDelay == 5

algorithm == "HS256"

MessageIds == 1..NumItems
Keys == 1..NumKeys

\* ------------------------------------------------------ JSON and tokens

\* {...a, ...b}: the keys of both, b's value where both have the key.
Spread(a, b) ==
  [k \in (DOMAIN a) \cup (DOMAIN b) |-> IF k \in DOMAIN b THEN b[k] ELSE a[k]]

EmptyObject == <<>>

\* base64URLEncode(JSON.stringify(obj)): a part that decodes to obj.
JsonPart(obj) == [kind |-> "json", obj |-> obj, key |-> 0]

\* A part that is not the base64url text of a JSON document.
JunkPart == [kind |-> "junk", obj |-> EmptyObject, key |-> 0]

\* base64URLEncode("null"): a part that decodes to the JSON value null.
NullPart == [kind |-> "null", obj |-> EmptyObject, key |-> 0]

\* createSignature(data, key) followed by base64URLEncode: the HMAC-SHA256 of
\* data = encodedHeader.encodedPayload under key.  Two MACs are the same text
\* exactly when data and key are the same.
createSignature(data, key) == [kind |-> "mac", obj |-> data, key |-> key]

\* JSON.parse(base64URLDecode(part)) throws on a part that is not JSON text.
DecodeThrows(part) == part.kind \notin {"json", "null"}
Decode(part) == part.obj
\* Reading a property of the decoded value throws a TypeError when it is null.
ReadThrows(part) == part.kind = "null"

\* A value handed over as a token: a string (its parts; the empty string has
\* none), or undefined, null or a number.
StringToken(parts) == [type |-> "string", parts |-> parts]
UndefinedToken == [type |-> "undefined", parts |-> <<>>]
NullToken == [type |-> "null", parts |-> <<>>]
NumberToken == [type |-> "number", parts |-> <<>>]
EmptyStringToken == StringToken(<<>>)

\* JavaScript truthiness of a token value (a non-zero number is truthy).
Truthy(token) ==
  \/ token.type = "number"
  \/ token.type = "string" /\ token.parts # <<>>

\* token.split('.').length; "".split('.') is [""].
SplitLength(token) == IF token.parts = <<>> THEN 1 ELSE Len(token.parts)

createHeader == [alg |-> algorithm, typ |-> "JWT"]

\* Date.now() in milliseconds at clock value t (seconds).
DateNow(t) == t * 1000

createPayload(customClaims, t) ==
  Spread([iss |-> "whatsupgemini-extension", sub |-> "store-access",
          aud |-> "whatsapp-web",
          exp |-> (DateNow(t) + tokenExpiry) \div 1000,
          iat |-> DateNow(t) \div 1000,
          scope |-> {"store-read", "audio-extract"}],
         customClaims)

\* A generateToken whose payload names the key it signs with.
generateTokenKeyed(customClaims, secretKey, t) ==
  LET encodedHeader == JsonPart(createHeader)
      encodedPayload ==
        JsonPart(Spread(createPayload(customClaims, t), [kid |-> secretKey]))
      data == <<encodedHeader, encodedPayload>>
  IN StringToken(<<encodedHeader, encodedPayload, createSignature(data, secretKey)>>)

\* generateToken once this.secretKey is set.
generateToken(customClaims, secretKey, t) ==
  LET encodedHeader == JsonPart(createHeader)
      encodedPayload == JsonPart(createPayload(customClaims, t))
      data == <<encodedHeader, encodedPayload>>
  IN StringToken(<<encodedHeader, encodedPayload, createSignature(data, secretKey)>>)

\* What a validator call comes to: a returned result object, or an exception
\* on its way to the caller (thrown).
Valid(payload) ==
  [valid |-> TRUE, error |-> "", payload |-> payload, note |-> "",
   thrown |-> FALSE]
Invalid(error) ==
  [valid |-> FALSE, error |-> error, payload |-> EmptyObject, note |-> "",
   thrown |-> FALSE]
Thrown(error) ==
  [valid |-> FALSE, error |-> error, payload |-> EmptyObject, note |-> "",
   thrown |-> TRUE]

\* An exception that leaves the function: no catch clause around the body.
Rethrow(outcome) == outcome

\* catch (error) { return { valid: false, error: error.message }; }
Catch(outcome) == IF outcome.thrown THEN Invalid(outcome.error) ELSE outcome

\* payload.exp && payload.exp < now
Expired(payload, nowSec) ==
  /\ "exp" \in DOMAIN payload
  /\ payload.exp # 0
  /\ payload.exp < nowSec

\* The try block shared by validateToken and validateTokenStructure: every
\* failed check throws.  checkSignature: the signature is compared (always in
\* validateToken, only with a truthy secretKey in validateTokenStructure).
ValidateTry(token, checkSignature, secretKey, t) ==
  LET nowSec == DateNow(t) \div 1000 IN
  IF ~Truthy(token) \/ token.type # "string" THEN Thrown("Invalid token format")
  ELSE IF SplitLength(token) # 3 THEN Thrown("Invalid token structure")
  ELSE IF DecodeThrows(token.parts[1]) \/ DecodeThrows(token.parts[2])
    THEN Thrown("JSON.parse or atob error")
  ELSE IF ReadThrows(token.parts[1]) THEN Thrown("TypeError")
  ELSE LET header == Decode(token.parts[1])
           payload == Decode(token.parts[2])
           data == <<token.parts[1], token.parts[2]>>
       IN IF "alg" \notin DOMAIN header \/ header.alg # algorithm
            THEN Thrown("Invalid algorithm")
          ELSE IF ReadThrows(token.parts[2]) THEN Thrown("TypeError")
          ELSE IF Expired(payload, nowSec) THEN Thrown("Token expired")
          ELSE IF checkSignature /\ token.parts[3] # createSignature(data, secretKey)
            THEN Thrown("Invalid signature")
          ELSE Valid(payload)

\* A validateToken that leaves the signature comparison out.
validateUnsigned(token, secretKey, t) ==
  Catch(ValidateTry(token, FALSE, secretKey, t))

\* validateToken once this.secretKey is set; t is the clock in seconds.
validateToken(token, secretKey, t) ==
  Catch(ValidateTry(token, TRUE, secretKey, t))

\* validateTokenStructure(token, secretKey) of page-jwt-utils.js; secretKey 0:
\* the argument is undefined.
validateTokenStructure(token, secretKey, t) ==
  Catch(ValidateTry(token, secretKey # 0, secretKey, t))

\* The try block of validateBasicToken: the first checks return their result,
\* JSON.parse and property reads may throw.
BasicTry(token, t) ==
  LET nowSec == DateNow(t) \div 1000 IN
  IF ~Truthy(token) \/ token.type # "string" THEN Invalid("Invalid token format")
  ELSE IF SplitLength(token) # 3 THEN Invalid("Invalid token structure")
  ELSE IF DecodeThrows(token.parts[1]) \/ DecodeThrows(token.parts[2])
    THEN Thrown("JSON.parse or atob error")
  ELSE IF ReadThrows(token.parts[1]) THEN Thrown("TypeError")
  ELSE LET header == Decode(token.parts[1])
           payload == Decode(token.parts[2])
       IN IF "alg" \notin DOMAIN header \/ header.alg # algorithm
            THEN Invalid("Invalid algorithm")
          ELSE IF ReadThrows(token.parts[2]) THEN Thrown("TypeError")
          ELSE IF Expired(payload, nowSec) THEN Invalid("Token expired")
          ELSE [Valid(payload) EXCEPT
                  !.note = "Signature not verified in page context"]

\* A validateBasicToken whose expiry test is payload.exp <= now.
validateBasicTokenStrict(token, t) == Catch(BasicTry(token, t + 1))

\* validateBasicToken of page-jwt-utils.js.
validateBasicToken(token, t) == Catch(BasicTry(token, t))

\* A token is in its refresh window.
needsRefresh(payload, t) ==
  \/ "exp" \notin DOMAIN payload
  \/ payload.exp = 0
  \/ payload.exp - (DateNow(t) \div 1000) < RefreshThreshold

\* getValidToken: the cached currentJWT when it still validates and is outside
\* its refresh window, else a newly generated token.
ReusesCached(store, secretKey, t) ==
  /\ Truthy(store.currentJWT)
  /\ validateToken(store.currentJWT, secretKey, t).valid
  /\ ~needsRefresh(validateToken(store.currentJWT, secretKey, t).payload, t)

\* A getValidToken that never looks at the cached token.
getFreshToken(store, customClaims, secretKey, t) ==
  generateToken(customClaims, secretKey, t)

getValidToken(store, customClaims, secretKey, t) ==
  IF ReusesCached(store, secretKey, t) THEN store.currentJWT
  ELSE generateToken(customClaims, secretKey, t)

\* ------------------------------------------------- inject.js (Executor)

\* A value a promise is rejected with or a catch clause receives: a string, an
\* Error object or a DOM event (reader.onerror = reject).
RejectString(msg, detail) == [type |-> "string", msg |-> msg, detail |-> detail]
RejectEvent == [type |-> "event", msg |-> "", detail |-> ""]
NoRejection == [type |-> "none", msg |-> "", detail |-> ""]

\* error.message: defined for an Error object, undefined for a string or an
\* event.
Undefined == [defined |-> FALSE, msg |-> "", detail |-> ""]
Message(msg, detail) == [defined |-> TRUE, msg |-> msg, detail |-> detail]
ErrorMessage(error) ==
  IF error.type = "Error" THEN Message(error.msg, error.detail) ELSE Undefined

\* What the host page's object graph does during one extraction:
\*   get    Store.Msg.get(msgKey): a record, null, or it throws
\*   type   the record's type
\*   model  window.WWebJS.getMessageModel(storeMsg): a model, or it throws
\*   media  dlFn, directPath, encFilehash, filehash, mediaKey all present or not
HostCases ==
  { h \in [get : {"record", "null", "throws"}, type : {"ptt", "chat"},
           model : {"ok", "throws"}, media : {"complete", "incomplete"}] :
      /\ h.get # "record" => h.type = "ptt"
      /\ (h.get # "record" \/ h.type # "ptt") => h.model = "ok"
      /\ (h.get # "record" \/ h.type # "ptt" \/ h.model # "ok")
           => h.media = "complete" }

\* The audio bytes (base64) the host holds for a message id.
HostAudio(messageId) == messageId

\* The synchronous part of getWhatsAppAudioData(messageId, jwtToken): from the
\* token check to the call of dlFn.  validator: pageJWTUtils is set; store:
\* window.Store, Store.Msg and Store.DownloadManager exist.
\*   validated  validateBasicToken ran on the token and returned valid
\*   lookup     Store.Msg.get was called
\*   download   dlFn was called
\*   settle     rejected (reject was called), pending (awaiting dlFn), or
\*              hung (the async executor threw: the promise never settles)
ExtractionRun(validated, lookup, download, settle, rejection) ==
  [validated |-> validated, lookup |-> lookup, download |-> download,
   settle |-> settle, rejection |-> rejection]

TokenGate(jwtToken, validator, t) ==
  IF Truthy(jwtToken) /\ validator
  THEN [checked |-> TRUE, pass |-> validateBasicToken(jwtToken, t).valid,
        error |-> validateBasicToken(jwtToken, t).error]
  ELSE [checked |-> FALSE, pass |-> TRUE, error |-> ""]

getWhatsAppAudioData(messageId, jwtToken, validator, store, host, t) ==
  LET gate == TokenGate(jwtToken, validator, t)
      validated == gate.checked /\ gate.pass
  IN
  IF ~gate.pass
    THEN ExtractionRun(FALSE, FALSE, FALSE, "rejected",
                       RejectString("JWT token validation failed", gate.error))
  ELSE IF ~store
    THEN ExtractionRun(validated, FALSE, FALSE, "rejected",
                       RejectString("WhatsApp internal Store objects not found", ""))
  ELSE IF host.get = "throws"
    THEN ExtractionRun(validated, TRUE, FALSE, "hung", NoRejection)
  ELSE IF host.get = "null"
    THEN ExtractionRun(validated, TRUE, FALSE, "rejected",
                       RejectString("Message not found in WhatsApp store", ""))
  ELSE IF host.type \notin {"ptt", "audio"}
    THEN ExtractionRun(validated, TRUE, FALSE, "rejected",
                       RejectString("Message is not an audio message", ""))
  ELSE IF host.model = "throws"
    THEN ExtractionRun(validated, TRUE, FALSE, "hung", NoRejection)
  ELSE IF host.media # "complete"
    THEN ExtractionRun(validated, TRUE, FALSE, "rejected",
                       RejectString("Required media properties or download function not found", ""))
  ELSE ExtractionRun(validated, TRUE, TRUE, "pending", NoRejection)

\* The detail of the audioDataResponse event dispatched by the listener.
SuccessFrame(messageId, base64Audio) ==
  [messageId |-> messageId, base64Audio |-> base64Audio, error |-> Undefined]
ErrorFrame(messageId, error) ==
  [messageId |-> messageId, base64Audio |-> 0, error |-> ErrorMessage(error)]

\* ------------------------------------------------ content.js (Bridge)

\* A lookup that ignores which message the frame names: the first message
\* element of the page whenever the id is one of the page's.
FirstElement(messageId) == IF messageId \in MessageIds THEN 1 ELSE 0

\* document.querySelector(`[data-id="${messageId}"]`) and its
\* .transcribe-button: the element of that message, 0 when there is none.
querySelector(messageId) == IF messageId \in MessageIds THEN messageId ELSE 0

\* A displayed .transcription-result block.
Text(msg, detail, of) == [msg |-> msg, detail |-> detail, of |-> of]
NoResult == [shown |-> FALSE, isError |-> FALSE, text |-> Text("", "", 0)]
Result(isError, text) == [shown |-> TRUE, isError |-> isError, text |-> text]

\* ----------------------------------------------- background.js (Controller)

\* What the remote service does with one generateContent call.
RemoteCases ==
  {"text", "emptyText", "http429", "http500", "noCandidates", "emptyCandidates",
   "noContent", "noParts", "emptyParts", "networkError"}

\* A response handed to sendResponse / received by the sendMessage callback;
\* kind lost: the callback runs with undefined (the port closed unanswered).
Transcription(of, text) ==
  [kind |-> "transcription", msg |-> text, detail |-> "", of |-> of]
ErrorResponse(msg, detail) ==
  [kind |-> "error", msg |-> msg, detail |-> detail, of |-> 0]
LostResponse == [kind |-> "lost", msg |-> "", detail |-> "", of |-> 0]
NoResponse == [kind |-> "none", msg |-> "", detail |-> "", of |-> 0]

\* transcribeAudioWithGemini followed by the handler's sendResponse.
transcribeAudioWithGemini(base64Audio, remote) ==
  CASE remote = "text" -> Transcription(base64Audio, "transcript")
    [] remote = "emptyText" -> Transcription(base64Audio, "")
    [] remote = "http429" -> ErrorResponse("HTTP error! status", "429")
    [] remote = "http500" -> ErrorResponse("HTTP error! status", "500")
    [] remote = "networkError" -> ErrorResponse("Failed to fetch", "")
    [] remote = "noParts" ->
         ErrorResponse("Cannot read properties of undefined", "")
    [] OTHER -> ErrorResponse("Unexpected response format from Gemini API", "")

\* ------------------------------------------------------------- state

VARIABLES
  now,           \* the clock, in seconds
  ticks,         \* clock advances taken so far
  jwtUtils,      \* background.js: jwtUtils and its secretKey (0: null)
  storageLocal,  \* chrome.storage.local: jwtSecretKey (0: undefined), currentJWT
  lastMint,      \* the last generateToken call: its claims, time, key and token
  lastCheck,     \* the last validateToken call: its token, time, key and result
  lastPage,      \* the last page validator call: its function, arguments, result
  calls,         \* per call slot: a getValidToken call between its awaits
  lastGet,       \* the last getValidToken return, and the return before it
  inits,         \* per call slot: an initializeSecretKey call between its awaits
  replies,       \* chrome.storage.local callbacks still to run, oldest first
  secretLog,     \* secrets generated and written so far, values returned
  lastReply,     \* the last response the Controller sent to a requester
  channel,       \* the keep-alive port and the timers around it
  content,       \* content.js in one page: its runs, scripts, listeners, DOM
  sigCompare,    \* the last signature comparison of validateToken
  geminiApiKey,  \* chrome.storage.sync holds a geminiApiKey
  teardowns,     \* times the service worker was torn down so far
  injectLoaded,  \* inject.js has run: its getAudioData listener is registered
  initTimer,     \* a setTimeout(initializeStoreWithJWT) is pending
  pageJWTUtils,  \* inject.js: pageJWTUtils is set (not null)
  storeInitialized, \* inject.js: storeInitialized
  storeObjects,  \* window.Store, Store.Msg and Store.DownloadManager exist
  exec,          \* per message id and stage: getWhatsAppAudioData promises
                 \* not yet answered by a frame
  lastExec,      \* the getWhatsAppAudioData run of the last step, if any
  button,        \* per message: its transcribe button, idle or disabled
  result,        \* per message: the displayed .transcription-result block
  tokenCall,     \* per message: the click handler's getJWTToken call
  xcribe,        \* bag of transcribeAudio calls whose callback has not run
  lastFrame,     \* the audioDataResponse event handled in the last step, if any
  clicks,        \* clicks handled so far
  foreign        \* getAudioData events dispatched by other page scripts so far

tokenVars ==
  <<now, ticks, jwtUtils, storageLocal, lastMint, lastCheck, lastPage, calls,
    lastGet, inits, replies, secretLog, lastReply, channel, content,
    sigCompare>>
pageVars == <<content, sigCompare>>
workerVars == <<inits, replies, secretLog, lastReply, channel, pageVars>>
controllerVars == <<geminiApiKey, teardowns>>
executorVars ==
  <<injectLoaded, initTimer, pageJWTUtils, storeInitialized, storeObjects,
    exec, lastExec>>
bridgeVars ==
  <<button, result, tokenCall, xcribe, lastFrame, clicks, foreign>>
protocolVars == <<controllerVars, executorVars, bridgeVars>>
vars == <<tokenVars, protocolVars>>

\* Keys a caller may put into customClaims, and the values tried for each.
ClaimKeys == {"messageId", "exp"}
ClaimValues(k) ==
  IF k = "messageId" THEN MessageIds
  ELSE {0, StartTime - 1, StartTime + 2 * (tokenExpiry \div 1000)}
CustomClaimSets ==
  UNION { { c \in [S -> UNION {ClaimValues(k) : k \in S}] :
              \A k \in S : c[k] \in ClaimValues(k) } : S \in SUBSET ClaimKeys }

\* new JWTUtils(): this.secretKey = null.
NewJWTUtils == [exists |-> TRUE, secretKey |-> 0]
NoJWTUtils == [exists |-> FALSE, secretKey |-> 0]

NoMint == [done |-> FALSE, claims |-> EmptyObject, at |-> 0, key |-> 0,
           token |-> UndefinedToken]
NoCheck == [done |-> FALSE, token |-> UndefinedToken, at |-> 0, key |-> 0,
            result |-> Invalid("")]
\* lastPage.fn: validateBasicToken or validateTokenStructure; secretKey: the
\* second argument of validateTokenStructure (0: none given).
NoPage == [done |-> FALSE, fn |-> "", token |-> UndefinedToken, secretKey |-> 0,
           at |-> 0, result |-> Invalid("")]

\* Concurrent getValidToken calls the service worker may have under way.
CallIds == 1..MaxCalls
\* A call slot: idle, or a call that found no reusable token (cached: the
\* currentJWT it read) and has not yet generated its own.
IdleSlot == [pc |-> "idle", claims |-> EmptyObject, cached |-> UndefinedToken]
NoCalls == [c \in CallIds |-> IdleSlot]
\* lastGet: the last return of getValidToken (its customClaims, the token
\* returned, the time, the currentJWT the call had read) and the customClaims
\* and token of the return before it.
NoGet == [done |-> FALSE, claims |-> EmptyObject, token |-> UndefinedToken,
          at |-> 0, key |-> 0, cached |-> UndefinedToken, hasPrev |-> FALSE,
          prevClaims |-> EmptyObject, prevToken |-> UndefinedToken]

\* initializeSecretKey: the stored key if there is one, else a fresh random
\* key (fresh), which is written to storage.
initializeSecretKey(store, fresh) ==
  IF store.jwtSecretKey # 0 THEN store.jwtSecretKey ELSE fresh
StoreSecretKey(store, fresh) ==
  IF store.jwtSecretKey # 0 THEN store
  ELSE [store EXCEPT !.jwtSecretKey = fresh]

\* The clock steps that reach the edges of the lifetime and refresh windows.
TickSteps ==
  {1, (tokenExpiry \div 1000) - RefreshThreshold, tokenExpiry \div 1000}

Tick ==
  /\ ticks < MaxTicks
  /\ \E d \in TickSteps : now' = now + d
  /\ ticks' = ticks + 1
  /\ UNCHANGED <<jwtUtils, storageLocal, lastMint, lastCheck, lastPage, calls,
                 lastGet, workerVars, protocolVars>>

\* jwtUtils.generateToken(customClaims), README.md 534-562.
GenerateToken(customClaims) ==
  \E fresh \in Keys :
    LET key == IF jwtUtils.secretKey # 0 THEN jwtUtils.secretKey
               ELSE initializeSecretKey(storageLocal, fresh)
    IN /\ jwtUtils.exists
       /\ jwtUtils' = [jwtUtils EXCEPT !.secretKey = key]
       /\ storageLocal' = IF jwtUtils.secretKey # 0 THEN storageLocal
                          ELSE StoreSecretKey(storageLocal, fresh)
       /\ lastMint' = [done |-> TRUE, claims |-> customClaims, at |-> now,
                       key |-> key,
                       token |-> generateToken(customClaims, key, now)]
       /\ UNCHANGED <<now, ticks, lastCheck, lastPage, calls, lastGet, workerVars,
                      protocolVars>>

\* jwtUtils.validateToken(token), README.md 565-616.  The secret is read (and
\* lazily initialised) only when the checks before the signature have passed.
ValidateToken(token) ==
  \E fresh \in Keys :
    LET reachesSignature == validateBasicToken(token, now).valid
        key == IF jwtUtils.secretKey # 0 \/ ~reachesSignature
               THEN jwtUtils.secretKey
               ELSE initializeSecretKey(storageLocal, fresh)
    IN /\ jwtUtils.exists
       /\ jwtUtils' = [jwtUtils EXCEPT !.secretKey = key]
       /\ storageLocal' = IF jwtUtils.secretKey # 0 \/ ~reachesSignature
                          THEN storageLocal
                          ELSE StoreSecretKey(storageLocal, fresh)
       /\ lastCheck' = [done |-> TRUE, token |-> token, at |-> now, key |-> key,
                        result |-> validateToken(token, key, now)]
       /\ lastPage' = NoPage
       /\ UNCHANGED <<now, ticks, lastMint, calls, lastGet, workerVars, protocolVars>>

\* An initializeSecretKey call slot: idle, reading (its storage.get is under
\* way) or writing (its storage.set is under way).  own: the call's this is
\* the object the global jwtUtils holds; key: this.secretKey of a call whose
\* object the global no longer holds.
IdleInit == [pc |-> "idle", own |-> TRUE, key |-> 0]
NoInits == [c \in CallIds |-> IdleInit]
\* secretLog: the number of generated secrets written to storage, the values
\* initializeSecretKey calls returned, whether onInstalled has fired, the
\* number of worker restarts, and the restart count at which lastMint was
\* minted.
NoSecrets == [writes |-> 0, returned |-> {}, installed |-> FALSE,
              restarts |-> 0, mintEpoch |-> 0]
\* A request to the Controller that no one has made.
NoRequest == [action |-> ""]
\* lastReply: the last step's response of the Controller: the request, what
\* the handler read (chrome.storage.local, this.secretKey, the clock,
\* whether chrome.storage.sync holds a geminiApiKey), the object given to
\* sendResponse (body), and the message the handler sent on (forwarded).
NoReply == [done |-> FALSE, request |-> NoRequest,
            store |-> [jwtSecretKey |-> 0, currentJWT |-> UndefinedToken],
            key |-> 0, at |-> 0, apiKey |-> FALSE, body |-> <<>>,
            forwarded |-> <<>>]
\* A port: unused, open or closed; the time the Controller's onConnect
\* listener ran for it, when its disconnect timer is due (-1: no timer), who
\* closed it when, and when the reconnect timer set by the Bridge's
\* onDisconnect listener of this port is due (-1: no timer).
PortIds == 1..MaxPorts
NoPort == [state |-> "unused", name |-> "", acceptedAt |-> 0, timerDue |-> -1,
           closedBy |-> "", closedAt |-> 0, reconnectDue |-> -1]
\* The keep-alive channel before content.js has run: the clock in seconds,
\* the ports, whether connectKeepAlivePort has run, and whether the extension
\* context of the content script has been invalidated.
NoChannel == [clock |-> 0, ports |-> [p \in PortIds |-> NoPort],
              started |-> FALSE, invalidated |-> FALSE]

\* The scripts content.js injects into the page, in the order of injection.
ScriptNames == {"page-jwt-utils.js", "lib.js", "inject.js"}
\* A script element not yet created; of an appended one: loading, loaded or
\* failed, when it was appended and when its load or error event fired (ms).
NoScript == [state |-> "none", appendedAt |-> -1, settledAt |-> -1]
\* A message bubble with a voice message that WhatsApp has not rendered yet;
\* of a rendered one: the dataset flag of its voice message element and the
\* number of .transcribe-button elements in its container.
NoBubble == [present |-> FALSE, transcribeButtonAdded |-> FALSE, buttons |-> 0]
\* The page before content.js has run: the clock in ms, executions of
\* content.js so far, the window flag, the audioDataResponse listeners and
\* MutationObservers registered, the keep-alive loops started (each with a
\* port open, with its reconnect timer pending, or dead), whether the
\* extension context is invalidated, the injected scripts, when the timer of
\* the inject.js injection is due (-1: no timer), and the bubbles.
NoContent ==
  [clock |-> 0, runs |-> 0, hasWhatsAppGeminiTranscriberLoaded |-> FALSE,
   listeners |-> 0, observers |-> 0, loops |-> <<>>, invalidated |-> FALSE,
   scripts |-> [n \in ScriptNames |-> NoScript], injectDue |-> -1,
   bubbles |-> [m \in MessageIds |-> NoBubble]]
\* No signature comparison made yet.
NoCompare == [done |-> FALSE, encodedSignature |-> <<>>,
              expectedEncodedSignature |-> <<>>, differ |-> FALSE, steps |-> 0]

\* The service worker and the keep-alive channel before anything has happened.
QuietWorker ==
  /\ inits = NoInits
  /\ replies = <<>>
  /\ secretLog = NoSecrets
  /\ lastReply = NoReply
  /\ channel = NoChannel
  /\ content = NoContent
  /\ sigCompare = NoCompare

\* obj without the key k.
Without(obj, k) == [j \in (DOMAIN obj) \ {k} |-> obj[j]]

\* Values a caller may hand to a validator, made from a generated token: the
\* token itself, values that are no strings, strings with a wrong number of
\* parts, parts that are no JSON or the JSON null, other headers, a payload
\* altered after signing, and signatures made under other keys.
TokenInputs(minted) ==
  LET h == minted.parts[1]
      p == minted.parts[2]
      mac == minted.parts[3]
      payload == Decode(p)
      later == Spread(payload, [exp |-> StartTime + 3 * (tokenExpiry \div 1000)])
  IN { minted, UndefinedToken, NullToken, NumberToken, EmptyStringToken,
       StringToken(<<h, p>>), StringToken(<<h, p, mac, mac>>),
       StringToken(<<JunkPart, p, mac>>), StringToken(<<h, JunkPart, mac>>),
       StringToken(<<NullPart, p, mac>>), StringToken(<<h, NullPart, mac>>),
       StringToken(<<JsonPart([alg |-> "none", typ |-> "JWT"]), p, mac>>),
       StringToken(<<JsonPart([typ |-> "JWT"]), p, mac>>),
       StringToken(<<h, JsonPart(later), mac>>),
       StringToken(<<h, JsonPart(Without(payload, "exp")), mac>>) }
     \cup { StringToken(<<h, p, createSignature(<<h, p>>, k)>>) : k \in Keys }

\* pageJWTUtils.validateBasicToken(token), page-jwt-utils.js 93-128.
ValidateBasicToken(token) ==
  /\ lastPage' = [done |-> TRUE, fn |-> "validateBasicToken", token |-> token,
                  secretKey |-> 0, at |-> now,
                  result |-> validateBasicToken(token, now)]
  /\ lastCheck' = NoCheck
  /\ UNCHANGED <<now, ticks, jwtUtils, storageLocal, lastMint, calls, lastGet,
                 workerVars,
                 protocolVars>>

\* pageJWTUtils.validateTokenStructure(token, secretKey), page-jwt-utils.js
\* 41-90.
ValidateTokenStructure(token, secretKey) ==
  /\ lastPage' = [done |-> TRUE, fn |-> "validateTokenStructure",
                  token |-> token, secretKey |-> secretKey, at |-> now,
                  result |-> validateTokenStructure(token, secretKey, now)]
  /\ lastCheck' = NoCheck
  /\ UNCHANGED <<now, ticks, jwtUtils, storageLocal, lastMint, calls, lastGet,
                 workerVars,
                 protocolVars>>

\* chrome.storage.local loses jwtSecretKey (the extension's storage is
\* cleared or the key removed).
LoseStoredSecret ==
  /\ storageLocal.jwtSecretKey # 0
  /\ storageLocal' = [storageLocal EXCEPT !.jwtSecretKey = 0]
  /\ UNCHANGED <<now, ticks, jwtUtils, lastMint, lastCheck, lastPage, calls,
                 lastGet, workerVars, protocolVars>>

\* The service worker is restarted and its next handler runs
\* jwtUtils = new JWTUtils(): the secret held in memory is gone.
RestartWorker ==
  /\ jwtUtils.secretKey # 0
  /\ \A c \in CallIds : calls[c].pc = "idle"
  /\ jwtUtils' = NewJWTUtils
  /\ UNCHANGED <<now, ticks, storageLocal, lastMint, lastCheck, lastPage, calls,
                 lastGet, workerVars, protocolVars>>

\* ---------------------------------------------------- protocol state

\* lastExec: what the last step's run of getWhatsAppAudioData was given and did.
\*   truthy      the jwtToken argument was truthy
\*   wellFormed  validateBasicToken would accept the jwtToken argument
\*   messageId, jwtToken  the detail of the event the listener received
NoExec ==
  [done |-> FALSE, messageId |-> 0, jwtToken |-> UndefinedToken,
   truthy |-> FALSE, wellFormed |-> FALSE,
   run |-> ExtractionRun(FALSE, FALSE, FALSE, "none", NoRejection)]
\* lastFrame: what the Bridge listener did with the last step's frame.
\*   wasIdle    the message's button was idle (no request of its own in flight)
\*   sent       a transcribeAudio message was sent
\*   uiChanged  the button or the result block was written
\*   rejection  what the extraction was rejected with
\*   error      the frame's error field
\*   shown      the block displayed
NoFrame ==
  [done |-> FALSE, wasIdle |-> FALSE, sent |-> FALSE,
   uiChanged |-> FALSE, rejection |-> NoRejection, error |-> Undefined,
   shown |-> NoResult]
IdleCall == [pc |-> "idle", success |-> FALSE, token |-> UndefinedToken]

\* Message ids another script of the page may name: those rendered and one
\* that has no element on the page.
PageMessageIds == 1..(NumItems + 1)

ExecStages == {"downloading", "reading", "hung"}
NoExtractions == [m \in PageMessageIds |-> [st \in ExecStages |-> 0]]

\* Token values another script of the page may put into a getAudioData event
\* at time t: none, malformed ones, an unsupported algorithm, an expired one and
\* a well-formed one signed without the secret.
PageTokens(t) ==
  LET payload == createPayload(EmptyObject, t)
      mac == createSignature(<<>>, 0)
  IN { UndefinedToken, NullToken, EmptyStringToken, NumberToken,
       StringToken(<<JsonPart(createHeader), JsonPart(payload)>>),
       StringToken(<<JsonPart(createHeader), JunkPart, mac>>),
       StringToken(<<JsonPart([alg |-> "none", typ |-> "JWT"]), JsonPart(payload), mac>>),
       StringToken(<<JsonPart(createHeader),
                     JsonPart([payload EXCEPT !.exp = t - 1]), mac>>),
       StringToken(<<JsonPart(createHeader), JsonPart(payload), mac>>) }

\* The remote answers taken in the protocol specification.
ProtocolRemoteCases == {"text", "emptyText", "http429", "emptyCandidates"}

\* The protocol before anything has happened: no script injected, no click.
QuietProtocol ==
  /\ geminiApiKey = FALSE
  /\ teardowns = 0
  /\ injectLoaded = FALSE
  /\ initTimer = FALSE
  /\ pageJWTUtils = FALSE
  /\ storeInitialized = FALSE
  /\ storeObjects = FALSE
  /\ exec = NoExtractions
  /\ lastExec = NoExec
  /\ button = [m \in MessageIds |-> "idle"]
  /\ result = [m \in MessageIds |-> NoResult]
  /\ tokenCall = [m \in MessageIds |-> IdleCall]
  /\ xcribe = EmptyBag
  /\ lastFrame = NoFrame
  /\ clicks = 0
  /\ foreign = 0

\* ------------------------------------------------- protocol actions

\* content.js 148-193: the audioDataResponse listener, run synchronously by
\* the dispatchEvent of inject.js.  rejection is what the extraction was
\* rejected with (NoRejection for a success frame).
audioDataResponse(frame, rejection) ==
  LET el == querySelector(frame.messageId)
      seen == [done |-> TRUE,
               wasIdle |-> IF el = 0 THEN TRUE ELSE button[el] = "idle",
               sent |-> FALSE, uiChanged |-> FALSE, rejection |-> rejection,
               error |-> frame.error, shown |-> NoResult]
  IN
  IF el = 0
    THEN /\ lastFrame' = seen
         /\ UNCHANGED <<button, result, xcribe>>
  ELSE IF frame.error.defined
    THEN LET block == Result(TRUE, Text(frame.error.msg, frame.error.detail, 0))
         IN /\ result' = [result EXCEPT ![el] = block]
            /\ button' = [button EXCEPT ![el] = "idle"]
            /\ lastFrame' = [seen EXCEPT !.uiChanged = TRUE, !.shown = block]
            /\ UNCHANGED xcribe
  ELSE IF frame.base64Audio = 0
    THEN LET block == Result(TRUE, Text("Audio data not found.", "", 0))
         IN /\ result' = [result EXCEPT ![el] = block]
            /\ button' = [button EXCEPT ![el] = "idle"]
            /\ lastFrame' = [seen EXCEPT !.uiChanged = TRUE, !.shown = block]
            /\ UNCHANGED xcribe
  ELSE /\ xcribe' = xcribe (+) SetToBag(
                      {[el |-> el, base64Audio |-> frame.base64Audio,
                        pc |-> "request", verified |-> FALSE,
                        response |-> NoResponse]})
       /\ lastFrame' = [seen EXCEPT !.sent = TRUE]
       /\ UNCHANGED <<button, result>>

\* inject.js 170-184 with 55-167: the getAudioData listener up to its first
\* suspension.  A rejected promise is answered at once (a microtask), and the
\* dispatched frame runs the Bridge listener.
getAudioDataEvent(messageId, jwtToken) ==
  \E host \in HostCases :
    LET run == getWhatsAppAudioData(messageId, jwtToken, pageJWTUtils,
                                    storeObjects, host, now)
    IN /\ lastExec' = [done |-> TRUE, messageId |-> messageId,
                       jwtToken |-> jwtToken, truthy |-> Truthy(jwtToken),
                       wellFormed |-> validateBasicToken(jwtToken, now).valid,
                       run |-> run]
       /\ IF run.settle = "rejected"
            THEN /\ exec' = exec
                 /\ audioDataResponse(ErrorFrame(messageId, run.rejection),
                                      run.rejection)
            ELSE /\ exec' = [exec EXCEPT ![messageId][
                                IF run.settle = "pending" THEN "downloading"
                                ELSE "hung"] = @ + 1]
                 /\ lastFrame' = NoFrame
                 /\ UNCHANGED <<button, result, xcribe>>

\* content.js 123-135: inject.js is appended and runs (its line 52 schedules
\* initializeStoreWithJWT, its line 170 registers the listener).
LoadInject ==
  /\ ~injectLoaded
  /\ injectLoaded' = TRUE
  /\ initTimer' = TRUE
  /\ lastExec' = NoExec
  /\ lastFrame' = NoFrame
  /\ UNCHANGED <<tokenVars, controllerVars, pageJWTUtils, storeInitialized,
                 storeObjects, exec, button, result, tokenCall, xcribe,
                 clicks, foreign>>

\* inject.js 10-49: the timer fires.  hasClass: window.PageJWTUtils is a
\* function; hasExpose: window.ExposeStore is a function.
initializeStoreWithJWT ==
  /\ initTimer
  /\ \E hasClass \in BOOLEAN, ctorThrows \in BOOLEAN,
        hasExpose \in BOOLEAN, exposeThrows \in BOOLEAN :
       LET constructs == ~pageJWTUtils /\ hasClass
           thrown == constructs /\ ctorThrows
           exposed == ~thrown /\ hasExpose /\ ~storeInitialized /\ ~exposeThrows
       IN /\ pageJWTUtils' = (pageJWTUtils \/ (constructs /\ ~ctorThrows))
          /\ storeInitialized' = (storeInitialized \/ exposed)
          /\ storeObjects' = (storeObjects \/ exposed)
          /\ initTimer' = thrown
  /\ lastExec' = NoExec
  /\ lastFrame' = NoFrame
  /\ UNCHANGED <<tokenVars, controllerVars, injectLoaded, exec, button, result,
                 tokenCall, xcribe, clicks, foreign>>

\* content.js 215-235: a click on the idle button of message m.  (A disabled
\* button fires no click.  The model handles one getJWTToken call per message
\* at a time.)
Click(m) ==
  /\ clicks + foreign < MaxRequests
  /\ button[m] = "idle"
  /\ tokenCall[m].pc = "idle"
  /\ clicks' = clicks + 1
  /\ button' = [button EXCEPT ![m] = "disabled"]
  /\ tokenCall' = [tokenCall EXCEPT ![m] = [IdleCall EXCEPT !.pc = "request"]]
  /\ lastExec' = NoExec
  /\ lastFrame' = NoFrame
  /\ UNCHANGED <<tokenVars, controllerVars, injectLoaded, initTimer,
                 pageJWTUtils, storeInitialized, storeObjects, exec, result,
                 xcribe, foreign>>

\* background.js 70-89: the getJWTToken handler for customClaims
\* {messageId: m}.  storageOk: chrome.storage.local answers.
getJWTToken(m) ==
  /\ tokenCall[m].pc = "request"
  /\ \E fresh \in Keys, storageOk \in BOOLEAN :
       LET key == IF jwtUtils.secretKey # 0 THEN jwtUtils.secretKey
                  ELSE initializeSecretKey(storageLocal, fresh)
           store == IF jwtUtils.secretKey # 0 THEN storageLocal
                    ELSE StoreSecretKey(storageLocal, fresh)
           token == getValidToken(store, [messageId |-> m], key, now)
       IN IF storageOk
            THEN /\ jwtUtils' = [exists |-> TRUE, secretKey |-> key]
                 /\ storageLocal' = [store EXCEPT !.currentJWT = token]
                 /\ tokenCall' = [tokenCall EXCEPT ![m] =
                      [pc |-> "response", success |-> TRUE, token |-> token]]
            ELSE /\ jwtUtils' = [jwtUtils EXCEPT !.exists = TRUE]
                 /\ storageLocal' = storageLocal
                 /\ tokenCall' = [tokenCall EXCEPT ![m] =
                      [pc |-> "response", success |-> FALSE,
                       token |-> UndefinedToken]]
  /\ lastExec' = NoExec
  /\ lastFrame' = NoFrame
  /\ UNCHANGED <<now, ticks, lastMint, lastCheck, lastPage, calls, lastGet,
                 workerVars,
                 controllerVars, injectLoaded,
                 initTimer, pageJWTUtils, storeInitialized, storeObjects, exec,
                 button, result, xcribe, clicks, foreign>>

\* A click handler that dispatches getAudioData whatever the token response
\* says.
TokenResponseUnchecked(m) ==
  /\ tokenCall[m].pc = "response"
  /\ tokenCall' = [tokenCall EXCEPT ![m] = IdleCall]
  /\ IF injectLoaded
       THEN getAudioDataEvent(m, tokenCall[m].token)
       ELSE /\ lastExec' = NoExec
            /\ lastFrame' = NoFrame
            /\ UNCHANGED <<exec, button, result, xcribe>>
  /\ UNCHANGED <<tokenVars, controllerVars, injectLoaded, initTimer,
                 pageJWTUtils, storeInitialized, storeObjects, clicks, foreign>>

\* content.js 232-258: the click handler resumes with the token response.  On
\* success it dispatches getAudioData, which runs the inject.js listener when
\* there is one; otherwise its catch block shows the error.
TokenResponse(m) ==
  /\ tokenCall[m].pc = "response"
  /\ tokenCall' = [tokenCall EXCEPT ![m] = IdleCall]
  /\ IF tokenCall[m].success
       THEN IF injectLoaded
              THEN getAudioDataEvent(m, tokenCall[m].token)
              ELSE /\ lastExec' = NoExec
                   /\ lastFrame' = NoFrame
                   /\ UNCHANGED <<exec, button, result, xcribe>>
       ELSE /\ button' = [button EXCEPT ![m] = "idle"]
            /\ result' = [result EXCEPT ![m] =
                            Result(TRUE, Text("Authentication failed", "", 0))]
            /\ lastExec' = NoExec
            /\ lastFrame' = NoFrame
            /\ UNCHANGED <<exec, xcribe>>
  /\ UNCHANGED <<tokenVars, controllerVars, injectLoaded, initTimer,
                 pageJWTUtils, storeInitialized, storeObjects, clicks, foreign>>

\* Another script of the page dispatches whatsappGeminiTranscriber_getAudioData
\* on document; the inject.js listener (170-184) cannot tell it from the
\* Bridge's event.
PageGetAudioData(messageId, jwtToken) ==
  /\ injectLoaded
  /\ clicks + foreign < MaxRequests
  /\ foreign' = foreign + 1
  /\ getAudioDataEvent(messageId, jwtToken)
  /\ UNCHANGED <<tokenVars, controllerVars, injectLoaded, initTimer,
                 pageJWTUtils, storeInitialized, storeObjects, tokenCall, clicks>>

\* inject.js 134-159: dlFn settles for a request for message id m.
DownloadSettles(m) ==
  /\ exec[m]["downloading"] > 0
  /\ lastExec' = NoExec
  /\ \E ok \in BOOLEAN :
       IF ok
         THEN /\ exec' = [exec EXCEPT ![m]["downloading"] = @ - 1,
                                      ![m]["reading"] = @ + 1]
              /\ lastFrame' = NoFrame
              /\ UNCHANGED <<button, result, xcribe>>
         ELSE LET rejection ==
                    RejectString("Error downloading or decrypting audio", "")
              IN /\ exec' = [exec EXCEPT ![m]["downloading"] = @ - 1]
                 /\ audioDataResponse(ErrorFrame(m, rejection), rejection)
  /\ UNCHANGED <<tokenVars, controllerVars, injectLoaded, initTimer,
                 pageJWTUtils, storeInitialized, storeObjects,
                 tokenCall, clicks, foreign>>

\* inject.js 145-156: the FileReader fires onload or onerror.
ReaderSettles(m) ==
  /\ exec[m]["reading"] > 0
  /\ exec' = [exec EXCEPT ![m]["reading"] = @ - 1]
  /\ lastExec' = NoExec
  /\ \E outcome \in {"data", "empty", "notString", "error"} :
       CASE outcome = "data" ->
              audioDataResponse(SuccessFrame(m, HostAudio(m)), NoRejection)
         [] outcome = "empty" ->
              audioDataResponse(SuccessFrame(m, 0), NoRejection)
         [] outcome = "notString" ->
              audioDataResponse(
                ErrorFrame(m, RejectString("Failed to convert blob to base64.", "")),
                RejectString("Failed to convert blob to base64.", ""))
         [] outcome = "error" ->
              audioDataResponse(ErrorFrame(m, RejectEvent), RejectEvent)
  /\ UNCHANGED <<tokenVars, controllerVars, injectLoaded, initTimer,
                 pageJWTUtils, storeInitialized, storeObjects,
                 tokenCall, clicks, foreign>>

\* xcribe with one copy of call x replaced by y.
Replace(x, y) == (xcribe (-) SetToBag({x})) (+) SetToBag({y})

\* A transcribeAudio handler that starts the remote call without looking for
\* the API key.
transcribeAudioWithoutKey(x) ==
  /\ BagIn(x, xcribe) /\ x.pc = "request"
  /\ xcribe' = Replace(x, [x EXCEPT !.pc = "fetching", !.verified = FALSE])
  /\ lastExec' = NoExec
  /\ lastFrame' = NoFrame
  /\ UNCHANGED <<tokenVars, controllerVars, injectLoaded, initTimer,
                 pageJWTUtils, storeInitialized, storeObjects, exec, button,
                 result, tokenCall, clicks, foreign>>

\* background.js 122-130: the transcribeAudio handler reads the API key and,
\* when there is one, starts the remote call.  The request carries base64Audio
\* and mimeType only; the handler calls no validateToken (verified stays false).
transcribeAudio(x) ==
  /\ BagIn(x, xcribe) /\ x.pc = "request"
  /\ xcribe' =
       IF geminiApiKey
         THEN Replace(x, [x EXCEPT !.pc = "fetching", !.verified = FALSE])
         ELSE Replace(x, [x EXCEPT !.pc = "response",
                            !.response = ErrorResponse("Gemini API key not found", "")])
  /\ lastExec' = NoExec
  /\ lastFrame' = NoFrame
  /\ UNCHANGED <<tokenVars, controllerVars, injectLoaded, initTimer,
                 pageJWTUtils, storeInitialized, storeObjects, exec, button,
                 result, tokenCall, clicks, foreign>>

\* background.js 42-65 and 132-140: the remote service answers and the handler
\* calls sendResponse.
RemoteAnswers(x) ==
  /\ BagIn(x, xcribe) /\ x.pc = "fetching"
  /\ \E remote \in ProtocolRemoteCases :
       xcribe' = Replace(x, [x EXCEPT !.pc = "response",
                    !.response = transcribeAudioWithGemini(x.base64Audio, remote)])
  /\ lastExec' = NoExec
  /\ lastFrame' = NoFrame
  /\ UNCHANGED <<tokenVars, controllerVars, injectLoaded, initTimer,
                 pageJWTUtils, storeInitialized, storeObjects, exec, button,
                 result, tokenCall, clicks, foreign>>

\* content.js 177-192: the sendMessage callback of one transcribeAudio call.
TranscribeResponse(x) ==
  /\ BagIn(x, xcribe) /\ x.pc = "response"
  /\ xcribe' = xcribe (-) SetToBag({x})
  /\ button' = [button EXCEPT ![x.el] = "idle"]
  /\ result' =
       IF x.response.kind = "error"
         THEN [result EXCEPT ![x.el] =
                 Result(TRUE, Text(x.response.msg, x.response.detail, 0))]
       ELSE IF x.response.kind = "transcription" /\ x.response.msg # ""
         THEN [result EXCEPT ![x.el] =
                 Result(FALSE, Text(x.response.msg, "", x.response.of))]
       ELSE result
  /\ lastExec' = NoExec
  /\ lastFrame' = NoFrame
  /\ UNCHANGED <<tokenVars, controllerVars, injectLoaded, initTimer,
                 pageJWTUtils, storeInitialized, storeObjects, exec, tokenCall,
                 clicks, foreign>>

\* popup.js 47 and background.js 146-152: the user saves an API key.
saveApiKey ==
  /\ ~geminiApiKey
  /\ geminiApiKey' = TRUE
  /\ lastExec' = NoExec
  /\ lastFrame' = NoFrame
  /\ UNCHANGED <<tokenVars, teardowns, injectLoaded, initTimer, pageJWTUtils,
                 storeInitialized, storeObjects, exec, button, result,
                 tokenCall, xcribe, clicks, foreign>>

\* The browser tears the service worker down: jwtUtils is lost, and every
\* sendMessage still unanswered completes without a response.
LoseResponse(x) ==
  IF x.pc \in {"request", "fetching"}
    THEN [x EXCEPT !.pc = "response", !.response = LostResponse]
    ELSE x

RECURSIVE LoseAll(_)
LoseAll(B) ==
  IF B = EmptyBag THEN EmptyBag
  ELSE LET x == CHOOSE y \in BagToSet(B) : TRUE
       IN LoseAll(B (-) SetToBag({x})) (+) SetToBag({LoseResponse(x)})

Teardown ==
  /\ teardowns < MaxTeardowns
  /\ teardowns' = teardowns + 1
  /\ jwtUtils' = NoJWTUtils
  /\ tokenCall' = [m \in MessageIds |->
       IF tokenCall[m].pc = "request"
         THEN [pc |-> "response", success |-> FALSE, token |-> UndefinedToken]
         ELSE tokenCall[m]]
  /\ xcribe' = LoseAll(xcribe)
  /\ lastExec' = NoExec
  /\ lastFrame' = NoFrame
  /\ UNCHANGED <<now, ticks, storageLocal, lastMint, lastCheck, lastPage, calls,
                 lastGet, workerVars, geminiApiKey,
                 injectLoaded, initTimer, pageJWTUtils, storeInitialized,
                 storeObjects, exec, button, result, clicks, foreign>>

Init ==
  /\ now = StartTime
  /\ ticks = 0
  /\ jwtUtils = NoJWTUtils
  /\ storageLocal = [jwtSecretKey |-> 0, currentJWT |-> UndefinedToken]
  /\ lastMint = NoMint
  /\ lastCheck = NoCheck
  /\ lastPage = NoPage
  /\ calls = NoCalls
  /\ lastGet = NoGet
  /\ QuietWorker
  /\ geminiApiKey = FALSE
  /\ teardowns = 0
  /\ injectLoaded = FALSE
  /\ initTimer = FALSE
  /\ pageJWTUtils = FALSE
  /\ storeInitialized = FALSE
  /\ storeObjects \in BOOLEAN
  /\ exec = NoExtractions
  /\ lastExec = NoExec
  /\ button = [m \in MessageIds |-> "idle"]
  /\ result = [m \in MessageIds |-> NoResult]
  /\ tokenCall = [m \in MessageIds |-> IdleCall]
  /\ xcribe = EmptyBag
  /\ lastFrame = NoFrame
  /\ clicks = 0
  /\ foreign = 0

Next ==
  \/ LoadInject
  \/ initializeStoreWithJWT
  \/ \E m \in MessageIds : Click(m)
  \/ \E m \in MessageIds : getJWTToken(m)
  \/ \E m \in MessageIds : TokenResponse(m)
  \/ \E m \in PageMessageIds, tok \in PageTokens(now) : PageGetAudioData(m, tok)
  \/ \E m \in PageMessageIds : DownloadSettles(m)
  \/ \E m \in PageMessageIds : ReaderSettles(m)
  \/ \E x \in BagToSet(xcribe) : transcribeAudio(x)
  \/ \E x \in BagToSet(xcribe) : RemoteAnswers(x)
  \/ \E x \in BagToSet(xcribe) : TranscribeResponse(x)
  \/ saveApiKey
  \/ Teardown

Spec == Init /\ [][Next]_vars

InitToken ==
  /\ now = StartTime
  /\ ticks = 0
  /\ jwtUtils = NewJWTUtils
  /\ storageLocal \in {[jwtSecretKey |-> k, currentJWT |-> UndefinedToken] :
                         k \in 0..NumKeys}
  /\ lastMint = NoMint
  /\ lastCheck = NoCheck
  /\ lastPage = NoPage
  /\ calls = NoCalls
  /\ lastGet = NoGet
  /\ QuietWorker
  /\ QuietProtocol

NextToken ==
  \/ Tick
  \/ \E c \in CustomClaimSets : GenerateToken(c)
  \/ lastMint.done /\ ValidateToken(lastMint.token)

SpecToken == InitToken /\ [][NextToken]_vars

\* ----------------------------------------------- cache specification

\* What getValidToken hands back, with the return before it.
Returned(customClaims, token, key, cached) ==
  [done |-> TRUE, claims |-> customClaims, token |-> token, at |-> now,
   key |-> key, cached |-> cached, hasPrev |-> lastGet.done,
   prevClaims |-> lastGet.claims, prevToken |-> lastGet.token]

\* jwtUtils.getValidToken(customClaims), README.md 628-641: call c reads
\* currentJWT and validates it.  A token that validates outside its refresh
\* window is returned; otherwise the call goes on to generate one.
GetValidTokenBegin(c, customClaims) ==
  /\ calls[c].pc = "idle"
  /\ jwtUtils.exists
  /\ \E fresh \in Keys :
       LET stored == storageLocal.currentJWT
           reachesSignature ==
             Truthy(stored) /\ validateBasicToken(stored, now).valid
           key == IF jwtUtils.secretKey # 0 \/ ~reachesSignature
                  THEN jwtUtils.secretKey
                  ELSE initializeSecretKey(storageLocal, fresh)
       IN /\ jwtUtils' = [jwtUtils EXCEPT !.secretKey = key]
          /\ storageLocal' = IF jwtUtils.secretKey # 0 \/ ~reachesSignature
                             THEN storageLocal
                             ELSE StoreSecretKey(storageLocal, fresh)
          /\ IF ReusesCached(storageLocal, key, now)
               THEN /\ lastGet' = Returned(customClaims, stored, key, stored)
                    /\ calls' = calls
               ELSE /\ calls' = [calls EXCEPT ![c] =
                                   [pc |-> "minting", claims |-> customClaims,
                                    cached |-> stored]]
                    /\ lastGet' = lastGet
  /\ UNCHANGED <<now, ticks, lastMint, lastCheck, lastPage, workerVars,
                 protocolVars>>

\* README.md 644-650: call c generates its token, stores it as currentJWT and
\* returns it.
GetValidTokenEnd(c) ==
  /\ calls[c].pc = "minting"
  /\ \E fresh \in Keys :
       LET key == IF jwtUtils.secretKey # 0 THEN jwtUtils.secretKey
                  ELSE initializeSecretKey(storageLocal, fresh)
           store == IF jwtUtils.secretKey # 0 THEN storageLocal
                    ELSE StoreSecretKey(storageLocal, fresh)
           token == generateToken(calls[c].claims, key, now)
       IN /\ jwtUtils' = [jwtUtils EXCEPT !.secretKey = key]
          /\ storageLocal' = [store EXCEPT !.currentJWT = token]
          /\ lastGet' = Returned(calls[c].claims, token, key, calls[c].cached)
  /\ calls' = [calls EXCEPT ![c] = IdleSlot]
  /\ UNCHANGED <<now, ticks, lastMint, lastCheck, lastPage, workerVars,
                 protocolVars>>

\* The customClaims of the getValidToken calls: those of one item, with and
\* without an exp of their own.
CacheClaimSets ==
  {c \in CustomClaimSets :
     /\ "messageId" \in DOMAIN c /\ c.messageId = 1
     /\ "exp" \in DOMAIN c => c.exp = StartTime - 1}

InitCache ==
  /\ now = StartTime
  /\ ticks = 0
  /\ jwtUtils = NewJWTUtils
  /\ storageLocal = [jwtSecretKey |-> 0, currentJWT |-> UndefinedToken]
  /\ lastMint = NoMint
  /\ lastCheck = NoCheck
  /\ lastPage = NoPage
  /\ calls = NoCalls
  /\ lastGet = NoGet
  /\ QuietWorker
  /\ QuietProtocol

NextCache ==
  \/ Tick
  \/ \E c \in CallIds, customClaims \in CacheClaimSets :
       GetValidTokenBegin(c, customClaims)
  \/ \E c \in CallIds : GetValidTokenEnd(c)
  \/ LoseStoredSecret
  \/ RestartWorker

SpecCache == InitCache /\ [][NextCache]_vars

\* ------------------------------------------- validator specification

\* The validators applied to the values made from one token, generated at
\* StartTime, at a later time, while the secret is lost and made anew.
ValidateClaimSets == {c \in CustomClaimSets : "messageId" \notin DOMAIN c}
\* The times of validation: inside the lifetime, at its last second, after it.
ValidateTimes ==
  {StartTime + d : d \in {0, (tokenExpiry \div 1000) + 1} \cup TickSteps}

InitValidate ==
  /\ now \in ValidateTimes
  /\ ticks = 0
  /\ \E k \in Keys, c \in ValidateClaimSets :
       /\ jwtUtils = [exists |-> TRUE, secretKey |-> k]
       /\ storageLocal = [jwtSecretKey |-> k, currentJWT |-> UndefinedToken]
       /\ lastMint = [done |-> TRUE, claims |-> c, at |-> StartTime, key |-> k,
                      token |-> generateToken(c, k, StartTime)]
  /\ lastCheck = NoCheck
  /\ lastPage = NoPage
  /\ calls = NoCalls
  /\ lastGet = NoGet
  /\ QuietWorker
  /\ QuietProtocol

NextValidate ==
  \/ \E token \in TokenInputs(lastMint.token) : ValidateToken(token)
  \/ \E token \in TokenInputs(lastMint.token) : ValidateBasicToken(token)
  \/ \E token \in TokenInputs(lastMint.token), secretKey \in 0..NumKeys :
       ValidateTokenStructure(token, secretKey)
  \/ LoseStoredSecret
  \/ RestartWorker

SpecValidate == InitValidate /\ [][NextValidate]_vars

\* ------------------------------------ service-worker specification

\* The responses of the onMessage handlers, part_001 68-160.
\* sendResponse({ success: true, token: token }), token from getValidToken.
getJWTTokenReply(store, customClaims, secretKey, t) ==
  [success |-> TRUE, token |-> getValidToken(store, customClaims, secretKey, t)]
\* sendResponse({ success: true, validation: validation })
validateJWTTokenReply(token, secretKey, t) ==
  [success |-> TRUE, validation |-> validateToken(token, secretKey, t)]
\* The message the getAudioData handler sends to the tab.
forwardGetAudioData(request) ==
  [action |-> "forwardGetAudioData", messageId |-> request.messageId]
\* chrome.runtime.onMessage listeners of the tab's content script: content.js
\* registers none.
contentListeners == {}
\* The response chrome.tabs.sendMessage hands to its callback: undefined when
\* no listener of the tab answers.
NoTabResponse == [undefined |-> TRUE]
tabsSendMessage(message) ==
  IF contentListeners = {} THEN NoTabResponse
  ELSE (CHOOSE listener \in contentListeners : TRUE)[message]
\* sendResponse({ status: "API Key saved." })
saveApiKeyReply == [status |-> "API Key saved."]
\* sendResponse({ apiKey: result.geminiApiKey }); apiKey: storage.sync holds one.
getApiKeyReply(apiKey) == [apiKey |-> IF apiKey THEN "geminiApiKey" ELSE ""]
\* The transcribeAudio handler's sendResponse.
transcribeAudioReply(request, apiKey) ==
  IF ~apiKey THEN ErrorResponse("Gemini API key not found", "")
  ELSE transcribeAudioWithGemini(request.base64Audio, request.remote)

\* What a handler answers to a request, given what it reads.
HandlerReply(request, store, secretKey, t, apiKey) ==
  CASE request.action = "getJWTToken" ->
         getJWTTokenReply(store, request.customClaims, secretKey, t)
    [] request.action = "validateJWTToken" ->
         validateJWTTokenReply(request.token, secretKey, t)
    [] request.action = "getAudioData" ->
         tabsSendMessage(forwardGetAudioData(request))
    [] request.action = "saveApiKey" -> saveApiKeyReply
    [] request.action = "getApiKey" -> getApiKeyReply(apiKey)
    [] request.action = "transcribeAudio" -> transcribeAudioReply(request, apiKey)

HandlerForwards(request) ==
  IF request.action = "getAudioData" THEN forwardGetAudioData(request)
  ELSE <<>>

Replied(request, store, secretKey, t, apiKey) ==
  [done |-> TRUE, request |-> request, store |-> store, key |-> secretKey,
   at |-> t, apiKey |-> apiKey,
   body |-> HandlerReply(request, store, secretKey, t, apiKey),
   forwarded |-> HandlerForwards(request)]

\* this.secretKey of the object call c runs on.
ThisSecretKey(c) == IF inits[c].own THEN jwtUtils.secretKey ELSE inits[c].key

\* chrome.runtime.onInstalled, part_001 8-19: a new JWTUtils replaces the
\* global one and its initializeSecretKey starts (storage.get is requested).
\* Calls under way keep running on the object the global held before.
OnInstalled(c) ==
  /\ ~secretLog.installed
  /\ inits[c].pc = "idle"
  /\ jwtUtils' = NewJWTUtils
  /\ inits' = [d \in CallIds |->
                 IF d = c THEN [pc |-> "reading", own |-> TRUE, key |-> 0]
                 ELSE IF inits[d].pc = "idle" THEN inits[d]
                 ELSE [pc |-> inits[d].pc, own |-> FALSE, key |-> ThisSecretKey(d)]]
  /\ replies' = Append(replies, [call |-> c, op |-> "get", key |-> 0])
  /\ secretLog' = [secretLog EXCEPT !.installed = TRUE]
  /\ lastReply' = NoReply
  /\ lastCheck' = NoCheck
  /\ UNCHANGED <<now, ticks, storageLocal, lastMint, lastPage, calls,
                 lastGet, channel, pageVars, protocolVars>>

\* A getJWTToken or validateJWTToken handler finds no secret in memory:
\* if (!jwtUtils) { jwtUtils = new JWTUtils(); await initializeSecretKey() }
\* (part_001 73-76, 97-100), or generateToken's and validateToken's
\* if (!this.secretKey) await this.initializeSecretKey() (README.md 536-538).
LazyInit(c) ==
  /\ jwtUtils.secretKey = 0
  /\ inits[c].pc = "idle"
  /\ jwtUtils' = NewJWTUtils
  /\ inits' = [inits EXCEPT ![c] = [pc |-> "reading", own |-> TRUE, key |-> 0]]
  /\ replies' = Append(replies, [call |-> c, op |-> "get", key |-> 0])
  /\ lastReply' = NoReply
  /\ lastCheck' = NoCheck
  /\ UNCHANGED <<now, ticks, storageLocal, lastMint, lastPage, calls,
                 lastGet, secretLog, channel, pageVars, protocolVars>>

\* this.secretKey = k in call c, with the slots after it (next).
AssignSecretKey(c, k, next) ==
  /\ jwtUtils' = IF inits[c].own THEN [jwtUtils EXCEPT !.secretKey = k]
                 ELSE jwtUtils
  /\ inits' = [d \in CallIds |->
                 IF ~inits[c].own /\ ~next[d].own THEN [next[d] EXCEPT !.key = k]
                 ELSE next[d]]

\* chrome.storage.local answers its oldest request and the call that made it
\* runs on to its next await or its return, README.md 457-466.
StorageReplies ==
  /\ replies # <<>>
  /\ LET r == Head(replies)
         c == r.call
         stored == storageLocal.jwtSecretKey
         idle == [inits EXCEPT ![c] = IdleInit]
     IN IF r.op = "get"
          THEN IF stored # 0
                 THEN /\ AssignSecretKey(c, stored, idle)
                      /\ replies' = Tail(replies)
                      /\ secretLog' =
                           [secretLog EXCEPT !.returned = @ \cup {stored}]
                      /\ storageLocal' = storageLocal
                 ELSE \E fresh \in Keys :
                      /\ AssignSecretKey(c, fresh,
                                         [inits EXCEPT ![c].pc = "writing"])
                      /\ replies' = Append(Tail(replies),
                                       [call |-> c, op |-> "set", key |-> fresh])
                      /\ UNCHANGED <<secretLog, storageLocal>>
          ELSE /\ storageLocal' = [storageLocal EXCEPT !.jwtSecretKey = r.key]
               /\ replies' = Tail(replies)
               /\ secretLog' =
                    [secretLog EXCEPT !.writes = @ + 1,
                                      !.returned = @ \cup {ThisSecretKey(c)}]
               /\ inits' = idle
               /\ jwtUtils' = jwtUtils
  /\ lastReply' = NoReply
  /\ lastCheck' = NoCheck
  /\ UNCHANGED <<now, ticks, lastMint, lastPage, calls, lastGet,
                 channel, pageVars, protocolVars>>

\* The getJWTToken handler once the secret is in memory, part_001 78-80.
onGetJWTToken(customClaims) ==
  LET request == [action |-> "getJWTToken", customClaims |-> customClaims]
      key == jwtUtils.secretKey
      reply == Replied(request, storageLocal, key, now, geminiApiKey)
  IN /\ key # 0
     /\ lastReply' = reply
     /\ storageLocal' = IF ReusesCached(storageLocal, key, now) THEN storageLocal
                        ELSE [storageLocal EXCEPT !.currentJWT = reply.body.token]
     /\ lastMint' = [done |-> TRUE, claims |-> customClaims, at |-> now,
                     key |-> key, token |-> reply.body.token]
     /\ lastCheck' = NoCheck
     /\ secretLog' = IF ReusesCached(storageLocal, key, now) THEN secretLog
                     ELSE [secretLog EXCEPT !.mintEpoch = secretLog.restarts]
     /\ UNCHANGED <<now, ticks, jwtUtils, lastPage, calls, lastGet, inits,
                    replies, channel, pageVars, protocolVars>>

\* The validateJWTToken handler once the secret is in memory, part_001 102-103.
onValidateJWTToken(token) ==
  LET request == [action |-> "validateJWTToken", token |-> token]
      key == jwtUtils.secretKey
      reply == Replied(request, storageLocal, key, now, geminiApiKey)
  IN /\ key # 0
     /\ lastMint.done
     /\ lastReply' = reply
     /\ lastCheck' = [done |-> TRUE, token |-> token, at |-> now, key |-> key,
                      result |-> reply.body.validation]
     /\ UNCHANGED <<now, ticks, jwtUtils, storageLocal, lastMint, lastPage,
                    calls, lastGet, inits, replies, secretLog, channel,
                    pageVars,
                    protocolVars>>

\* The handlers that read no secret: getAudioData, saveApiKey, getApiKey and
\* transcribeAudio, part_001 113-159.
onOtherRequest(request) ==
  /\ lastReply' = Replied(request, storageLocal, jwtUtils.secretKey, now,
                          geminiApiKey)
  /\ geminiApiKey' = (geminiApiKey \/ request.action = "saveApiKey")
  /\ lastCheck' = NoCheck
  /\ UNCHANGED <<now, ticks, jwtUtils, storageLocal, lastMint,
                 lastPage, calls, lastGet, inits, replies, secretLog, channel,
                 pageVars,
                 teardowns, executorVars, bridgeVars>>

\* The requests of onOtherRequest.
OtherRequests ==
  [action : {"getAudioData"}, messageId : MessageIds, token : {lastMint.token}]
  \cup [action : {"saveApiKey", "getApiKey"}]
  \cup [action : {"transcribeAudio"}, base64Audio : {HostAudio(1)},
        remote : RemoteCases \ {"emptyText", "http500", "networkError"}]

\* The tokens a requester asks the worker to validate: the token it was
\* given, the same header and payload signed under each key, a token with an
\* altered payload and a value that is no token.
WorkerTokenInputs(minted) ==
  {token \in TokenInputs(minted) :
     \/ token.type = "undefined"
     \/ /\ token.type = "string" /\ Len(token.parts) = 3
        /\ token.parts[1] = minted.parts[1]
        /\ token.parts[2].kind = "json"
        /\ "exp" \in DOMAIN token.parts[2].obj}

\* The service worker is stopped while nothing is under way and started
\* again: let jwtUtils = null, part_001 6.
StartAgain ==
  /\ secretLog.restarts < MaxTeardowns
  /\ jwtUtils.exists
  /\ replies = <<>>
  /\ jwtUtils' = NoJWTUtils
  /\ secretLog' = [secretLog EXCEPT !.restarts = @ + 1]
  /\ lastReply' = NoReply
  /\ lastCheck' = NoCheck
  /\ UNCHANGED <<now, ticks, storageLocal, lastMint, lastPage, calls,
                 lastGet, inits, replies, channel, pageVars, protocolVars>>

\* The clock passes to the edge of the refresh window of the tokens generated
\* so far, or past their lifetime.
LifetimePasses ==
  /\ ticks = 0
  /\ lastMint.done
  /\ \E d \in {(tokenExpiry \div 1000) - RefreshThreshold,
                (tokenExpiry \div 1000) + 1} : now' = now + d
  /\ ticks' = ticks + 1
  /\ lastReply' = NoReply
  /\ lastCheck' = NoCheck
  /\ UNCHANGED <<jwtUtils, storageLocal, lastMint, lastPage, calls, lastGet,
                 inits, replies, secretLog, channel, pageVars, protocolVars>>

\* A fresh installation: nothing stored, no JWTUtils object.
InitWorker ==
  /\ now = StartTime
  /\ ticks = 0
  /\ jwtUtils = NoJWTUtils
  /\ storageLocal = [jwtSecretKey |-> 0, currentJWT |-> UndefinedToken]
  /\ lastMint = NoMint
  /\ lastCheck = NoCheck
  /\ lastPage = NoPage
  /\ calls = NoCalls
  /\ lastGet = NoGet
  /\ QuietWorker
  /\ QuietProtocol

\* customClaims as content.js sends them: { messageId }.
WorkerClaimSets == {c \in CustomClaimSets : DOMAIN c = {"messageId"}}

NextWorker ==
  \/ LifetimePasses
  \/ \E c \in CallIds : OnInstalled(c)
  \/ \E c \in CallIds : LazyInit(c)
  \/ StorageReplies
  \/ \E customClaims \in WorkerClaimSets : onGetJWTToken(customClaims)
  \/ /\ lastMint.done
     /\ \E token \in WorkerTokenInputs(lastMint.token) :
          onValidateJWTToken(token)
  \/ \E request \in OtherRequests : onOtherRequest(request)
  \/ StartAgain

SpecWorker == InitWorker /\ [][NextWorker]_vars

\* --------------------------------------- keep-alive specification

\* A disconnect timer set for every port, whatever its name.
TimerForEveryPort(name) == TRUE

\* if (port.name === "keep-alive"), part_001 163.
SetsDisconnectTimer(name) == name = "keep-alive"

\* The onConnect listener of the Controller at time t, part_001 162-171.
onConnect(name, t) ==
  [state |-> "open", name |-> name, acceptedAt |-> t,
   timerDue |-> IF SetsDisconnectTimer(name) THEN t + KeepAliveTimeout ELSE -1,
   closedBy |-> "", closedAt |-> 0, reconnectDue |-> -1]

\* An onDisconnect listener that reconnects without a delay.
onDisconnectAtOnce(t) == t

\* The Bridge's onDisconnect listener at time t, popup.js 321-323: when the
\* reconnect timer it sets is due.
onDisconnect(t) == t + ReconnectDelay

\* A port is disconnected at time t, and the onDisconnect listener of a
\* keep-alive port runs; dropTimer: the Controller's timers are gone with it.
Disconnected(port, by, t, dropTimer) ==
  IF port.state # "open"
    THEN [port EXCEPT !.timerDue = IF dropTimer THEN -1 ELSE @]
    ELSE [port EXCEPT !.state = "closed", !.closedBy = by, !.closedAt = t,
                      !.timerDue = IF dropTimer THEN -1 ELSE @,
                      !.reconnectDue = IF port.name = "keep-alive"
                                         THEN onDisconnect(t) ELSE -1]

UnusedPorts == {p \in PortIds : channel.ports[p].state = "unused"}
NextPort == CHOOSE p \in UnusedPorts : \A q \in UnusedPorts : p <= q
BridgePortOpen ==
  \E p \in PortIds : /\ channel.ports[p].state = "open"
                     /\ channel.ports[p].name = "keep-alive"
\* The ports whose onDisconnect listener has a reconnect timer pending.
ReconnectsPending == {p \in PortIds : channel.ports[p].reconnectDue # -1}
\* The times at which a pending timer is due.
TimersDue ==
  ({channel.ports[p].timerDue : p \in PortIds}
   \cup {channel.ports[p].reconnectDue : p \in PortIds}) \ {-1}

KeepAliveStep(next) ==
  /\ channel' = next
  /\ UNCHANGED <<now, ticks, jwtUtils, storageLocal, lastMint, lastCheck,
                 lastPage, calls, lastGet, inits, replies, secretLog,
                 lastReply, pageVars, protocolVars>>

\* connectKeepAlivePort() when content.js loads, popup.js 328.
connectKeepAlivePort ==
  /\ ~channel.started
  /\ ~channel.invalidated
  /\ KeepAliveStep([channel EXCEPT
       !.started = TRUE,
       !.ports[NextPort] = onConnect("keep-alive", channel.clock)])

\* The reconnect timer set when port p was disconnected fires and runs
\* connectKeepAlivePort, popup.js 318-324.  In a content script whose
\* extension context is invalidated, chrome.runtime.connect throws before any
\* listener is added.
ReconnectTimerFires(p) ==
  /\ channel.ports[p].reconnectDue = channel.clock
  /\ IF channel.invalidated
       THEN KeepAliveStep([channel EXCEPT !.ports[p].reconnectDue = -1])
       ELSE /\ UnusedPorts # {}
            /\ KeepAliveStep([channel EXCEPT
                 !.ports = [q \in PortIds |->
                    IF q = NextPort THEN onConnect("keep-alive", channel.clock)
                    ELSE IF q = p THEN [channel.ports[p] EXCEPT !.reconnectDue = -1]
                    ELSE channel.ports[q]]])

\* The Controller's timer of port p fires: port.disconnect(), part_001 164.
DisconnectTimerFires(p) ==
  /\ channel.ports[p].timerDue = channel.clock
  /\ KeepAliveStep([channel EXCEPT
       !.ports[p] = Disconnected(@, "controller", channel.clock, TRUE)])

\* The browser stops the service worker: its ports are disconnected and its
\* timers are gone.
WorkerStops ==
  /\ \E p \in PortIds : \/ channel.ports[p].state = "open"
                        \/ channel.ports[p].timerDue # -1
  /\ KeepAliveStep([channel EXCEPT
       !.ports = [p \in PortIds |->
                    Disconnected(channel.ports[p], "worker", channel.clock, TRUE)]])

\* The extension is reloaded, updated or removed while the tab stays open.
ContextInvalidated ==
  /\ channel.started
  /\ ~channel.invalidated
  /\ KeepAliveStep([channel EXCEPT
       !.invalidated = TRUE,
       !.ports = [p \in PortIds |->
                    Disconnected(channel.ports[p], "reload", channel.clock, TRUE)]])

\* Another context connects with a port of another name.
OtherConnects ==
  /\ ~channel.invalidated
  /\ Cardinality(UnusedPorts) > 1
  /\ KeepAliveStep([channel EXCEPT
       !.ports[NextPort] = onConnect("other", channel.clock)])

\* The other context closes its port.
OtherDisconnects(p) ==
  /\ channel.ports[p].state = "open"
  /\ channel.ports[p].name = "other"
  /\ KeepAliveStep([channel EXCEPT
       !.ports[p] = Disconnected(@, "peer", channel.clock, FALSE)])

\* Time passes until the next timer is due, or for the length of the
\* Controller's timeout when no timer is pending.
NextInstant ==
  IF TimersDue = {} THEN channel.clock + KeepAliveTimeout
  ELSE CHOOSE t \in TimersDue : \A u \in TimersDue : t <= u
Advance ==
  /\ NextInstant > channel.clock
  /\ NextInstant <= MaxClock
  /\ KeepAliveStep([channel EXCEPT !.clock = NextInstant])

NextKeepAlive ==
  \/ connectKeepAlivePort
  \/ \E p \in PortIds : ReconnectTimerFires(p)
  \/ \E p \in PortIds : DisconnectTimerFires(p)
  \/ WorkerStops
  \/ ContextInvalidated
  \/ OtherConnects
  \/ \E p \in PortIds : OtherDisconnects(p)
  \/ Advance

SpecKeepAlive == InitWorker /\ [][NextKeepAlive]_vars

\* ------------------------------------------- content script specification

\* setTimeout(..., 500) of the inject.js injection, popup.js 135 (ms).
InjectDelay == 500
\* The clock of the page moves in steps of ClockStep ms up to MaxContentClock,
\* and content.js is executed at most MaxRuns times.
ClockStep == 250
MaxContentClock == 1000
MaxRuns == 2

ContentStep(next) ==
  /\ content' = next
  /\ UNCHANGED <<now, ticks, jwtUtils, storageLocal, lastMint, lastCheck,
                 lastPage, calls, lastGet, inits, replies, secretLog,
                 lastReply, channel, sigCompare, protocolVars>>

\* (document.head || document.documentElement).appendChild(script) at time t.
appendChild(t) == [state |-> "loading", appendedAt |-> t, settledAt |-> -1]

\* A load event that starts the injection timer at once.
libScriptOnloadAtOnce(t) == t

\* libScript.onload at time t, popup.js 118-136: when the timer it sets is due.
libScriptOnload(t) == t + InjectDelay

\* One execution of content.js, popup.js 100-371: behind the load guard it
\* appends page-jwt-utils.js, registers the audioDataResponse listener, starts
\* the keep-alive loop and the MutationObserver.
ContentScriptRuns ==
  /\ content.runs < MaxRuns
  /\ ~content.invalidated
  /\ IF content.hasWhatsAppGeminiTranscriberLoaded
       THEN ContentStep([content EXCEPT !.runs = @ + 1])
       ELSE ContentStep([content EXCEPT
              !.runs = @ + 1,
              !.hasWhatsAppGeminiTranscriberLoaded = TRUE,
              !.scripts["page-jwt-utils.js"] = appendChild(content.clock),
              !.listeners = @ + 1,
              !.loops = Append(@, "port"),
              !.observers = @ + 1])

\* chrome.runtime.getURL in a callback of content.js: in an invalidated
\* extension context it may throw, which ends the callback.
GetURLOutcomes == {throws \in BOOLEAN : throws => content.invalidated}

\* jwtScript.onload, popup.js 111-141: lib.js is appended.
jwtScriptOnload ==
  /\ content.scripts["page-jwt-utils.js"].state = "loading"
  /\ \E throws \in GetURLOutcomes :
       ContentStep([content EXCEPT
         !.scripts = [n \in ScriptNames |->
            IF n = "page-jwt-utils.js"
              THEN [@[n] EXCEPT !.state = "loaded", !.settledAt = content.clock]
            ELSE IF n = "lib.js" /\ ~throws THEN appendChild(content.clock)
            ELSE @[n]]])

\* libScript.onload, popup.js 118-136: the injection timer is set.
LibScriptLoads ==
  /\ content.scripts["lib.js"].state = "loading"
  /\ ContentStep([content EXCEPT
       !.scripts["lib.js"] = [@ EXCEPT !.state = "loaded",
                                       !.settledAt = content.clock],
       !.injectDue = libScriptOnload(content.clock)])

\* The injection timer fires, not before it is due, popup.js 123-135:
\* inject.js is appended.
InjectTimerFires ==
  /\ content.injectDue # -1
  /\ content.clock >= content.injectDue
  /\ \E throws \in GetURLOutcomes :
       ContentStep([content EXCEPT
         !.injectDue = -1,
         !.scripts["inject.js"] =
            IF throws THEN @ ELSE appendChild(content.clock)])

\* injectScript.onload, popup.js 127-130.
InjectScriptLoads ==
  /\ content.scripts["inject.js"].state = "loading"
  /\ ContentStep([content EXCEPT
       !.scripts["inject.js"] = [@ EXCEPT !.state = "loaded",
                                          !.settledAt = content.clock]])

\* The onerror handler of script n, popup.js 131-133, 137-139, 142-144: a log
\* line and nothing else.
ScriptFails(n) ==
  /\ content.scripts[n].state = "loading"
  /\ ContentStep([content EXCEPT
       !.scripts[n] = [@ EXCEPT !.state = "failed",
                                !.settledAt = content.clock]])

\* addTranscriptionButton(voiceMessageElement) for the bubble of message m,
\* popup.js 195-276.
addTranscriptionButton(bubble) ==
  IF ~bubble.transcribeButtonAdded /\ bubble.buttons = 0
    THEN [bubble EXCEPT !.buttons = @ + 1, !.transcribeButtonAdded = TRUE]
    ELSE bubble

\* The MutationObserver, the DOMContentLoaded listener or the 2 s timer finds
\* the voice message of m, popup.js 331-370.
ObserverFires(m) ==
  /\ content.observers > 0
  /\ content.bubbles[m].present
  /\ ContentStep([content EXCEPT
       !.bubbles[m] = addTranscriptionButton(@)])

\* WhatsApp renders the bubble of message m.
VoiceMessageRendered(m) ==
  /\ ~content.bubbles[m].present
  /\ ContentStep([content EXCEPT !.bubbles[m].present = TRUE])

\* WhatsApp renders the bubble of m again: the voice message element or its
\* attributes may be replaced, and children it did not render may be dropped.
BubbleRerendered(m) ==
  /\ content.bubbles[m].present
  /\ \E keepsFlag \in BOOLEAN, keepsButton \in BOOLEAN :
       ContentStep([content EXCEPT
         !.bubbles[m].transcribeButtonAdded = @ /\ keepsFlag,
         !.bubbles[m].buttons = IF keepsButton THEN @ ELSE 0])

\* The port of keep-alive loop i is disconnected: its onDisconnect listener
\* sets the reconnect timer, popup.js 322-325.
BridgePortDisconnects(i) ==
  /\ content.loops[i] = "port"
  /\ ContentStep([content EXCEPT !.loops[i] = "timer"])

\* The reconnect timer of loop i runs connectKeepAlivePort, popup.js 320-326;
\* in an invalidated extension context chrome.runtime.connect throws.
BridgeReconnects(i) ==
  /\ content.loops[i] = "timer"
  /\ ContentStep([content EXCEPT
       !.loops[i] = IF content.invalidated THEN "dead" ELSE "port"])

\* The extension is reloaded, updated or removed while the page stays open:
\* the ports of the content script are disconnected.
ContentContextInvalidated ==
  /\ content.runs > 0
  /\ ~content.invalidated
  /\ ContentStep([content EXCEPT
       !.invalidated = TRUE,
       !.loops = [i \in DOMAIN @ |-> IF @[i] = "port" THEN "timer" ELSE @[i]]])

AdvanceContent ==
  /\ content.clock + ClockStep <= MaxContentClock
  /\ ContentStep([content EXCEPT !.clock = @ + ClockStep])

NextContent ==
  \/ ContentScriptRuns
  \/ jwtScriptOnload
  \/ LibScriptLoads
  \/ InjectTimerFires
  \/ InjectScriptLoads
  \/ \E n \in ScriptNames : ScriptFails(n)
  \/ \E m \in MessageIds : ObserverFires(m)
  \/ \E m \in MessageIds : VoiceMessageRendered(m)
  \/ \E m \in MessageIds : BubbleRerendered(m)
  \/ \E i \in DOMAIN content.loops : BridgePortDisconnects(i)
  \/ \E i \in DOMAIN content.loops : BridgeReconnects(i)
  \/ ContentContextInvalidated
  \/ AdvanceContent

SpecContent == InitWorker /\ [][NextContent]_vars

\* ------------------------------------- signature comparison specification

\* Encoded signatures are strings of SigLen characters over SigAlphabet; a
\* presented signature has 1 to SigLen characters.
SigLen == 3
SigAlphabet == {"a", "b"}
EncodedSignatures == [1..SigLen -> SigAlphabet]
PresentedSignatures == UNION {[1..n -> SigAlphabet] : n \in 1..SigLen}

\* The first position at which two strings of the same length differ, or
\* their length when they are equal.
FirstDifference(a, b) ==
  IF a = b THEN Len(a)
  ELSE CHOOSE i \in 1..Len(a) :
         a[i] # b[i] /\ \A j \in 1..(i - 1) : a[j] = b[j]

\* a !== b on two strings, README.md 606.
StrictNotEquals(a, b) == a # b

\* The characters `a !== b` reads of each string: strings of different
\* lengths differ without a look at their characters, strings of one length
\* are compared from the first character up to the first difference.
StrictNotEqualsSteps(a, b) ==
  IF Len(a) # Len(b) THEN 0 ELSE FirstDifference(a, b)

InitCompare ==
  /\ now = StartTime
  /\ ticks = 0
  /\ jwtUtils = NoJWTUtils
  /\ storageLocal = [jwtSecretKey |-> 0, currentJWT |-> UndefinedToken]
  /\ lastMint = NoMint
  /\ lastCheck = NoCheck
  /\ lastPage = NoPage
  /\ calls = NoCalls
  /\ lastGet = NoGet
  /\ inits = NoInits
  /\ replies = <<>>
  /\ secretLog = NoSecrets
  /\ lastReply = NoReply
  /\ channel = NoChannel
  /\ content = NoContent
  /\ \E expected \in EncodedSignatures :
       sigCompare = [NoCompare EXCEPT !.expectedEncodedSignature = expected]
  /\ QuietProtocol

\* if (encodedSignature !== expectedEncodedSignature) of validateToken,
\* README.md 598-608, on a presented signature.
CompareSignature(encodedSignature) ==
  /\ sigCompare' =
       [done |-> TRUE,
        encodedSignature |-> encodedSignature,
        expectedEncodedSignature |-> sigCompare.expectedEncodedSignature,
        differ |-> StrictNotEquals(encodedSignature,
                                   sigCompare.expectedEncodedSignature),
        steps |-> StrictNotEqualsSteps(encodedSignature,
                                       sigCompare.expectedEncodedSignature)]
  /\ UNCHANGED <<now, ticks, jwtUtils, storageLocal, lastMint, lastCheck,
                 lastPage, calls, lastGet, inits, replies, secretLog,
                 lastReply, channel, content, protocolVars>>

NextCompare ==
  \E encodedSignature \in PresentedSignatures :
    CompareSignature(encodedSignature)

SpecCompare == InitCompare /\ [][NextCompare]_vars

\* ------------------------------------------------------------- claims

\* C1: the Controller starts the remote transcription call only for a request
\* whose token it has verified with validateToken; no remote call is under way
\* for a request that carried no token or an unverified one.
C1_RemoteCallOnlyAfterVerify ==
  \A x \in BagToSet(xcribe) : x.pc = "fetching" => x.verified

\* C2: a getAudioData request whose token is missing (undefined, null or the
\* empty string) is rejected by getWhatsAppAudioData, which calls neither
\* Store.Msg.get nor the download function for it.
C2_MissingTokenRejected ==
  (lastExec.done /\ ~lastExec.truthy)
  => /\ lastExec.run.settle = "rejected"
     /\ lastExec.run.rejection.msg = "JWT token validation failed"
     /\ ~lastExec.run.lookup
     /\ ~lastExec.run.download

\* C3: a getAudioData request whose token is expired, malformed or of an
\* unsupported algorithm at validation time is rejected without a call of
\* Store.Msg.get or of the download function.
C3_BadTokenRejected ==
  (lastExec.done /\ lastExec.truthy /\ ~lastExec.wellFormed)
  => /\ lastExec.run.settle = "rejected"
     /\ ~lastExec.run.lookup
     /\ ~lastExec.run.download

\* C4: however initializeStoreWithJWT interleaves with getAudioData events, a
\* request that carries a token reaches Store.Msg.get only when
\* validateBasicToken has accepted that token.
C4_NoLookupUnvalidated ==
  (lastExec.done /\ lastExec.truthy /\ lastExec.run.lookup)
  => lastExec.run.validated

\* C5: every getAudioData event is answered by exactly one audioDataResponse
\* frame; no request is left with a promise that can never settle, whatever
\* the lookup, the message model, the media fields or the download do.
C5_NoRequestLeftUnanswered ==
  \A m \in PageMessageIds : exec[m]["hung"] = 0

\* C6: when the extraction is rejected with reason R, the audioDataResponse
\* frame carries error = R, and the text the Bridge shows for the item is R.
C6_ReasonSurfaced ==
  (lastFrame.done /\ lastFrame.rejection.type # "none")
  => /\ lastFrame.error = Message(lastFrame.rejection.msg, lastFrame.rejection.detail)
     /\ lastFrame.uiChanged => lastFrame.shown.text.msg = lastFrame.rejection.msg

\* C7: a disabled transcribe button is always re-enabled in the end: while
\* it is disabled, some step of its exchange is still to come (its token call,
\* its extraction, its transcription call) to re-enable it.
C7_DisabledHasPendingWork ==
  \A m \in MessageIds :
    button[m] = "disabled"
    => \/ tokenCall[m].pc # "idle"
       \/ exec[m]["downloading"] + exec[m]["reading"] > 0
       \/ \E x \in BagToSet(xcribe) : x.el = m

\* C8: an audioDataResponse frame for an item whose button is idle (no request
\* of its own in flight) is dropped: no transcribeAudio message is sent and
\* neither the button nor the result block is written.
C8_IdleFrameDropped ==
  (lastFrame.done /\ lastFrame.wasIdle)
  => /\ ~lastFrame.sent
     /\ ~lastFrame.uiChanged

\* C9: with several items in flight and responses in any order, the
\* transcription shown at item X is the one of X's own audio, and every
\* transcribeAudio call in flight for X carries X's own audio and response.
C9_ResultsNotCrossed ==
  /\ \A m \in MessageIds :
       (result[m].shown /\ ~result[m].isError)
       => result[m].text.of = HostAudio(m)
  /\ \A x \in BagToSet(xcribe) :
       /\ x.base64Audio = HostAudio(x.el)
       /\ x.response.kind = "transcription" => x.response.of = HostAudio(x.el)

\* C9 happens: item 1 shows its transcription while the transcription response
\* of item 2, requested meanwhile, is still to be delivered.
C9_Witness ==
  /\ result[1].shown /\ ~result[1].isError
  /\ button[2] = "disabled"
  /\ \E x \in BagToSet(xcribe) :
       x.el = 2 /\ x.pc = "response" /\ x.response.kind = "transcription"

\* C10: for every custom-claims set C and every time t with
\* issuedAt <= t <= issuedAt + 900, validateToken(generateToken(C)) under the
\* same secret is valid and its payload carries every custom field of C.
C10_RoundTrip ==
  ( /\ lastCheck.done /\ lastMint.done
    /\ lastCheck.token = lastMint.token
    /\ lastCheck.key = lastMint.key
    /\ lastMint.at <= lastCheck.at
    /\ lastCheck.at <= lastMint.at + (tokenExpiry \div 1000) )
  => /\ lastCheck.result.valid
     /\ \A k \in DOMAIN lastMint.claims :
          /\ k \in DOMAIN lastCheck.result.payload
          /\ lastCheck.result.payload[k] = lastMint.claims[k]

\* The payload a token string carries once it has three parts that decode.
PayloadOf(token) == Decode(token.parts[2])

\* A validation result that got as far as the expiry test.
ReachedExpiryTest(outcome) ==
  outcome.error \notin {"Invalid token format", "Invalid token structure",
                       "JSON.parse or atob error", "TypeError",
                       "Invalid algorithm"}

\* A payload with an expiry a validator can compare with the clock.
UsableExpiry(payload) == "exp" \in DOMAIN payload /\ payload.exp # 0

\* What C11 asks of one validation call.
ExpiryEnforced(call) ==
  /\ call.result.valid
     => /\ UsableExpiry(call.result.payload)
        /\ call.at <= call.result.payload.exp
  /\ ( /\ ReachedExpiryTest(call.result)
       /\ UsableExpiry(PayloadOf(call.token))
       /\ call.at > PayloadOf(call.token).exp )
     => /\ ~call.result.valid
        /\ call.result.error = "Token expired"

\* C11: a token accepted at time t by validateToken or validateBasicToken has
\* an expiry with t <= exp; validation at a time t > exp fails with the
\* expired reason; no token without a usable expiry is accepted.
C11_ExpiryEnforced ==
  /\ lastCheck.done => ExpiryEnforced(lastCheck)
  /\ (lastPage.done /\ lastPage.fn = "validateBasicToken")
     => ExpiryEnforced(lastPage)

C13_ReservedFieldsKept ==
  lastMint.done
  => /\ PayloadOf(lastMint.token).iat = lastMint.at
     /\ PayloadOf(lastMint.token).exp = lastMint.at + (tokenExpiry \div 1000)
     /\ PayloadOf(lastMint.token).scope = {"store-read", "audio-extract"}

\* C14: the token answered to a getJWTToken request with customClaims
\* {messageId: X} has payload messageId = X, whatever token requests came
\* before it.
C14_TokenScopedToItem ==
  \A m \in MessageIds :
    (tokenCall[m].pc = "response" /\ tokenCall[m].success)
    => /\ "messageId" \in DOMAIN PayloadOf(tokenCall[m].token)
       /\ PayloadOf(tokenCall[m].token).messageId = m

\* C15: every token getValidToken returns, reused or newly generated, has at
\* least 120 seconds of life left when it is returned, for every customClaims.
C15_ReturnedOutsideRefreshWindow ==
  lastGet.done
  => /\ UsableExpiry(PayloadOf(lastGet.token))
     /\ PayloadOf(lastGet.token).exp - lastGet.at >= RefreshThreshold

\* The token returned before still validates and is outside its refresh
\* window when the last call returns.
PrevStillFresh ==
  /\ validateToken(lastGet.prevToken, lastGet.key, lastGet.at).valid
  /\ ~needsRefresh(PayloadOf(lastGet.prevToken), lastGet.at)

\* C16: two getValidToken calls with the same customClaims, the second begun
\* before or after the first returned, with no expiry and no entry into the
\* refresh window in between, return the same token string.
C16_SameTokenTwice ==
  ( /\ lastGet.done /\ lastGet.hasPrev
    /\ lastGet.claims = lastGet.prevClaims
    /\ PrevStillFresh )
  => lastGet.token = lastGet.prevToken

\* The currentJWT the last call had read was no longer reusable: expired, in
\* its refresh window, or not validating.
CachedWasStale ==
  /\ Truthy(lastGet.cached)
  /\ \/ ~validateToken(lastGet.cached, lastGet.key, lastGet.at).valid
     \/ needsRefresh(PayloadOf(lastGet.cached), lastGet.at)

\* C17: a getValidToken call that finds the cached token expired, inside its
\* refresh window or not validating returns a new token string, different
\* from the cached one and with a strictly later exp, and currentJWT then is
\* the new token.
C17_StaleCacheReplaced ==
  (lastGet.done /\ CachedWasStale)
  => /\ lastGet.token # lastGet.cached
     /\ PayloadOf(lastGet.token).exp > PayloadOf(lastGet.cached).exp
     /\ storageLocal.currentJWT = lastGet.token

\* An input C18 names: no string, a wrong number of parts, a part that does
\* not decode to a JSON object, or a wrong algorithm tag.
Malformed(token) ==
  \/ ~Truthy(token) \/ token.type # "string"
  \/ SplitLength(token) # 3
  \/ DecodeThrows(token.parts[1]) \/ DecodeThrows(token.parts[2])
  \/ ReadThrows(token.parts[1]) \/ ReadThrows(token.parts[2])
  \/ "alg" \notin DOMAIN Decode(token.parts[1])
  \/ Decode(token.parts[1]).alg # algorithm

\* What C18 asks of one validation call.
FailsByResult(call) ==
  /\ ~call.result.thrown
  /\ Malformed(call.token)
     => /\ ~call.result.valid
        /\ call.result.error # ""

\* C18: for every input, validateToken, validateBasicToken and
\* validateTokenStructure return a result (valid = false and a reason for a
\* malformed input); none of them throws to its caller.
C18_NeverThrows ==
  /\ lastCheck.done => FailsByResult(lastCheck)
  /\ lastPage.done => FailsByResult(lastPage)

\* C18 happens: JSON.parse threw inside validateBasicToken on a payload part
\* that is no JSON, and the caller got a failure result.
C18_Witness ==
  /\ lastPage.done
  /\ lastPage.fn = "validateBasicToken"
  /\ ~lastPage.result.valid
  /\ lastPage.result.error = "JSON.parse or atob error"
  /\ DecodeThrows(lastPage.token.parts[2])

C20_UnverifiedIsTagged ==
  ( /\ lastPage.done
    /\ lastPage.result.valid
    /\ lastPage.fn = "validateBasicToken" \/ lastPage.secretKey = 0 )
  => lastPage.result.note # ""

\* C21: across every interleaving of initializeSecretKey calls, at most one
\* generated secret is written to storage per installation, and every call
\* returns the same value.
C21_OneSecretPerInstallation ==
  /\ secretLog.writes <= 1
  /\ Cardinality(secretLog.returned) <= 1

\* The secret k in the run where the secrets a and b have changed places.
SwapKey(a, b, k) == IF k = a THEN b ELSE IF k = b THEN a ELSE k
\* A token as the other run holds it: its signature made under the other key.
SwapToken(a, b, token) ==
  [token EXCEPT !.parts =
     [i \in DOMAIN token.parts |->
        IF token.parts[i].kind = "mac"
          THEN [token.parts[i] EXCEPT !.key = SwapKey(a, b, @)]
          ELSE token.parts[i]]]
SwapStore(a, b, store) ==
  [jwtSecretKey |-> SwapKey(a, b, store.jwtSecretKey),
   currentJWT |-> SwapToken(a, b, store.currentJWT)]
SwapRequest(a, b, request) ==
  IF "token" \in DOMAIN request
    THEN [request EXCEPT !.token = SwapToken(a, b, @)]
    ELSE request
\* A response with the signature of its token left out.
BlindToken(token) ==
  [token EXCEPT !.parts =
     [i \in DOMAIN token.parts |->
        IF token.parts[i].kind = "mac" THEN NullPart ELSE token.parts[i]]]
BlindReply(body) ==
  IF "token" \in DOMAIN body THEN [body EXCEPT !.token = BlindToken(@)]
  ELSE body

\* C22: no response and no forwarded message of the Controller depends on the
\* installation secret but in the signature of a token: the handler's
\* response in the run where any two secrets have changed places is the same
\* response once token signatures are left out.
C22_ResponsesHideSecret ==
  lastReply.done
  => \A a, b \in Keys :
       /\ BlindReply(HandlerReply(SwapRequest(a, b, lastReply.request),
                                  SwapStore(a, b, lastReply.store),
                                  SwapKey(a, b, lastReply.key),
                                  lastReply.at, lastReply.apiKey))
          = BlindReply(lastReply.body)
       /\ HandlerForwards(SwapRequest(a, b, lastReply.request))
          = lastReply.forwarded

\* C22 happens: a validateJWTToken response said valid, which it says only
\* for a signature made under the secret in memory.
C22_Witness ==
  /\ lastReply.done
  /\ lastReply.request.action = "validateJWTToken"
  /\ lastReply.body.validation.valid
  /\ lastReply.key = storageLocal.jwtSecretKey

\* C23: a token minted before a restart of the service worker and validated
\* after it, inside its lifetime, passes validateToken.
C23_TokensSurviveRestart ==
  ( /\ lastCheck.done
    /\ lastMint.done
    /\ lastCheck.token = lastMint.token
    /\ secretLog.mintEpoch < secretLog.restarts
    /\ lastCheck.at <= PayloadOf(lastMint.token).exp )
  => lastCheck.result.valid

\* C30: a getAudioData request is forwarded with its item id and its token,
\* and the requester receives a frame of the Executor for that item.
C30_RequestRelayed ==
  (lastReply.done /\ lastReply.request.action = "getAudioData")
  => /\ "messageId" \in DOMAIN lastReply.forwarded
     /\ lastReply.forwarded.messageId = lastReply.request.messageId
     /\ "jwtToken" \in DOMAIN lastReply.forwarded
     /\ "messageId" \in DOMAIN lastReply.body
     /\ lastReply.body.messageId = lastReply.request.messageId

\* C24: once connectKeepAlivePort has run, the Bridge either holds an open
\* keep-alive port or has a reconnect attempt scheduled, also after an
\* attempt that failed.
C24_ReconnectAlwaysScheduled ==
  channel.started => (BridgePortOpen \/ ReconnectsPending # {})

\* C25: a port named keep-alive is not open later than 250 s after the
\* Controller accepted it, the Controller closes a port only at 250 s after
\* accepting it, and never a port of another name.
C25_KeepAliveClosedAfterTimeout ==
  \A p \in PortIds :
    LET port == channel.ports[p] IN
    /\ (port.state = "open" /\ port.name = "keep-alive")
       => channel.clock <= port.acceptedAt + KeepAliveTimeout
    /\ (port.state = "open" /\ port.name = "keep-alive"
        /\ channel.clock = port.acceptedAt + KeepAliveTimeout)
       => port.timerDue = channel.clock
    /\ port.closedBy = "controller"
       => /\ port.name = "keep-alive"
          /\ port.closedAt = port.acceptedAt + KeepAliveTimeout
    /\ port.name = "other" => port.timerDue = -1

\* C25 happens: the Controller closed a keep-alive port at its timeout while
\* a port of another name, open for longer than the timeout, stays open.
C25_Witness ==
  \E p, q \in PortIds :
    /\ channel.ports[p].closedBy = "controller"
    /\ channel.ports[p].closedAt = channel.ports[p].acceptedAt + KeepAliveTimeout
    /\ channel.ports[q].name = "other"
    /\ channel.ports[q].state = "open"
    /\ channel.clock > channel.ports[q].acceptedAt + KeepAliveTimeout

\* The transcribeAudio exchange x ends in this step: the callback of
\* chrome.runtime.sendMessage runs with its response, popup.js 177-192.
CallbackRuns(x) ==
  /\ x.pc = "response"
  /\ xcribe' = xcribe (-) SetToBag({x})

\* C26: when the remote service answers with the text T, the block shown at
\* the item after the callback is a success block with text T, for every T.
C26_TextSurfaced ==
  [][\A x \in BagToSet(xcribe) :
       (CallbackRuns(x) /\ x.response.kind = "transcription")
       => result'[x.el] = Result(FALSE, Text(x.response.msg, "", x.response.of))]_vars

\* The remote answers whose shape deviates from
\* candidates[0].content.parts[0].
ShapeDeviations ==
  {"noCandidates", "emptyCandidates", "noContent", "noParts", "emptyParts"}

\* C27: for every deviating shape of the remote answer the Controller
\* responds with the one unexpected-response error.
C27_DeviationsGiveOneError ==
  ( /\ lastReply.done
    /\ lastReply.request.action = "transcribeAudio"
    /\ lastReply.apiKey
    /\ lastReply.request.remote \in ShapeDeviations )
  => lastReply.body =
       ErrorResponse("Unexpected response format from Gemini API", "")

\* The class of a shown block: its styling (error or success) and its
\* message without the detail that follows it.
ErrorClass(block) == [isError |-> block.isError, msg |-> block.text.msg]
\* The block the Bridge shows for an error response.
ErrorBlock(response) == Result(TRUE, Text(response.msg, response.detail, 0))

\* C28: the block shown for an HTTP 429 answer is of another class than the
\* block shown for another HTTP failure.
C28_RateLimitDistinct ==
  \A m \in MessageIds :
    (result[m].shown /\ result[m].isError /\ result[m].text.detail = "429")
    => ErrorClass(result[m])
       # ErrorClass(ErrorBlock(transcribeAudioWithGemini(HostAudio(m), "http500")))

\* C29: for every outcome of a transcribeAudio request the callback
\* re-enables the item's button and shows one block for that outcome: a
\* success block for a transcription, an error block otherwise.
C29_EveryOutcomeSurfaced ==
  [][\A x \in BagToSet(xcribe) :
       CallbackRuns(x)
       => /\ button'[x.el] = "idle"
          /\ result'[x.el].shown
          /\ result'[x.el].isError = (x.response.kind # "transcription")
          /\ x.response.kind \in {"transcription", "error"}
             => result'[x.el].text.msg = x.response.msg]_vars

\* C31: the Bridge's getAudioData event for an item follows a success token
\* response for that click and carries that item id and that token; after a
\* failed token request no event reaches the Executor, the authentication
\* error is shown and the button is enabled again.
C31_DispatchOnlyWithToken ==
  [][/\ \A m \in MessageIds :
          (tokenCall[m].pc = "response" /\ tokenCall'[m].pc = "idle")
          => IF tokenCall[m].success
               THEN injectLoaded
                    => /\ lastExec'.done
                       /\ lastExec'.messageId = m
                       /\ lastExec'.jwtToken = tokenCall[m].token
               ELSE /\ lastExec' = NoExec
                    /\ exec' = exec
                    /\ button'[m] = "idle"
                    /\ result'[m] =
                         Result(TRUE, Text("Authentication failed", "", 0))
     /\ (lastExec'.done /\ foreign' = foreign)
        => \E m \in MessageIds :
             /\ tokenCall[m].pc = "response"
             /\ tokenCall[m].success
             /\ tokenCall'[m].pc = "idle"
             /\ lastExec'.messageId = m]_vars

\* C31 happens: the Executor's listener ran on the Bridge's event, which
\* carries the token the Controller handed out.
C31_Witness ==
  /\ lastExec.done
  /\ foreign = 0
  /\ lastExec.messageId \in MessageIds
  /\ lastExec.jwtToken = storageLocal.currentJWT
  /\ Truthy(lastExec.jwtToken)

\* C32: on the arguments of every run of getWhatsAppAudioData and for every
\* state of the host's record, the download function is called only for a
\* record that exists, is of an audio type and has the download function and
\* all media fields, and every run without a download is answered with an
\* error.
C32_DownloadOnlyForCompleteAudio ==
  lastExec.done
  => \A host \in HostCases :
       LET run == getWhatsAppAudioData(lastExec.messageId, lastExec.jwtToken,
                                       pageJWTUtils, storeObjects, host, now)
       IN /\ run.download
             => /\ host.get = "record"
                /\ host.type \in {"ptt", "audio"}
                /\ host.media = "complete"
          /\ ~run.download => run.settle = "rejected"

\* The response the transcribeAudio handler gives without an API key.
KeyNotFound(x) ==
  [x EXCEPT !.pc = "response",
            !.response = ErrorResponse("Gemini API key not found", "")]

\* C33: while no API key is stored, a transcribeAudio request that leaves the
\* handler has the key-not-found error as its one response (or none, when
\* the worker is gone), and no request ever reaches the remote service
\* without a stored key.
C33_NoKeyNoRemoteCall ==
  [][/\ \A x \in BagToSet(xcribe) :
          ( /\ x.pc = "request"
            /\ ~geminiApiKey
            /\ CopiesIn(x, xcribe') < CopiesIn(x, xcribe) )
          => \/ CopiesIn(KeyNotFound(x), xcribe') = CopiesIn(KeyNotFound(x), xcribe) + 1
             \/ CopiesIn(LoseResponse(x), xcribe') > CopiesIn(LoseResponse(x), xcribe)
     /\ (\E x \in BagToSet(xcribe') : x.pc = "fetching") => geminiApiKey']_vars

\* C33 happens: a request was answered with the key-not-found error while no
\* key is stored.
C33_Witness ==
  /\ ~geminiApiKey
  /\ \E x \in BagToSet(xcribe) :
       /\ x.pc = "response"
       /\ x.response = ErrorResponse("Gemini API key not found", "")

\* C34: a token the Controller handed out passes validateToken under the
\* secret in chrome.storage.local at every moment before its expiry at which
\* a secret is stored and no storage request is under way.
C34_HandedTokenVerifiesUnderStoredSecret ==
  ( /\ lastMint.done
    /\ storageLocal.jwtSecretKey # 0
    /\ replies = <<>>
    /\ now <= PayloadOf(lastMint.token).exp )
  => validateToken(lastMint.token, storageLocal.jwtSecretKey, now).valid

\* C35: a getJWTToken request, also one made after a restart of the worker,
\* is answered with the token cached in chrome.storage.local whenever that
\* token verifies under the secret in memory and has at least 120 seconds
\* left, and with a newly generated token otherwise.
C35_CacheSurvivesRestart ==
  (lastReply.done /\ lastReply.request.action = "getJWTToken")
  => LET cached == lastReply.store.currentJWT
         verifies == validateToken(cached, lastReply.key, lastReply.at)
     IN IF /\ Truthy(cached)
           /\ verifies.valid
           /\ "exp" \in DOMAIN verifies.payload
           /\ verifies.payload.exp - lastReply.at >= RefreshThreshold
          THEN lastReply.body.token = cached
          ELSE lastReply.body.token =
                 generateToken(lastReply.request.customClaims, lastReply.key,
                               lastReply.at)

\* C35 happens: after a restart the worker answered with the token that was
\* minted and cached before the restart.
C35_Witness ==
  /\ lastReply.done
  /\ lastReply.request.action = "getJWTToken"
  /\ lastReply.body.token = lastReply.store.currentJWT
  /\ secretLog.mintEpoch < secretLog.restarts
  /\ lastReply.at > StartTime

\* The keep-alive ports the Bridge has opened so far.
KeepAlivePorts ==
  {p \in PortIds : channel.ports[p].name = "keep-alive"}

\* C36: the Bridge never has more than one keep-alive port open or reconnect
\* timer pending, taken together, and a keep-alive port is opened only when
\* every earlier one is closed, 5 seconds or more after it closed.
C36_OneChannelOrOneTimer ==
  /\ Cardinality({p \in KeepAlivePorts : channel.ports[p].state = "open"})
       + Cardinality(ReconnectsPending) <= 1
  /\ \A p, q \in KeepAlivePorts :
       p < q => /\ channel.ports[p].state = "closed"
                /\ channel.ports[q].acceptedAt
                     >= channel.ports[p].closedAt + ReconnectDelay

\* C36 happens: a second keep-alive port is open, accepted 5 seconds after
\* the first one was closed.
C36_Witness ==
  \E p, q \in KeepAlivePorts :
    /\ p < q
    /\ channel.ports[q].state = "open"
    /\ channel.ports[q].acceptedAt = channel.ports[p].closedAt + ReconnectDelay

\* C37: once inject.js has run, initialisation of the Executor stops being
\* scheduled only when it has succeeded: while the page JWT utilities or the
\* Store objects are still missing, a run of initializeStoreWithJWT is pending.
C37_InitRetriedUntilSuccess ==
  (injectLoaded /\ ~initTimer) => (pageJWTUtils /\ storeInitialized)

\* C38: inject.js is appended only when page-jwt-utils.js and then lib.js have
\* loaded, lib.js appended no earlier than page-jwt-utils.js loaded, and
\* inject.js 500 ms or more after lib.js loaded; when either of the two fails
\* to load, inject.js is not appended and no injection timer is pending.
C38_InjectAfterBothLoaded ==
  LET jwtScript == content.scripts["page-jwt-utils.js"]
      libScript == content.scripts["lib.js"]
      injectScript == content.scripts["inject.js"]
  IN /\ libScript.state # "none" =>
          /\ jwtScript.state = "loaded"
          /\ jwtScript.settledAt <= libScript.appendedAt
     /\ (injectScript.state # "none" \/ content.injectDue # -1) =>
          /\ jwtScript.state = "loaded"
          /\ libScript.state = "loaded"
     /\ injectScript.state # "none" =>
          injectScript.appendedAt >= libScript.settledAt + InjectDelay
     /\ (jwtScript.state = "failed" \/ libScript.state = "failed") =>
          /\ injectScript.state = "none"
          /\ content.injectDue = -1

\* C38 happens: inject.js has been appended, 500 ms after lib.js loaded.
C38_Witness ==
  /\ content.scripts["inject.js"].state # "none"
  /\ content.scripts["inject.js"].appendedAt
       = content.scripts["lib.js"].settledAt + InjectDelay

\* The keep-alive loops that still have a port open or a reconnect pending.
ActiveLoops == {i \in DOMAIN content.loops : content.loops[i] # "dead"}

\* C39: once content.js has run in the page, however often it runs again and
\* however often the observer fires, one audioDataResponse listener is
\* registered, one keep-alive loop is active and no bubble holds more than
\* one transcribe button.
C39_OneListenerLoopButton ==
  content.runs > 0 =>
    /\ content.listeners = 1
    /\ Cardinality(ActiveLoops) = 1
    /\ \A m \in MessageIds : content.bubbles[m].buttons <= 1

\* C40: the number of characters the comparison of validateToken reads is
\* the same for every presented signature of the same length, however many
\* of its leading characters are correct.
C40_ConstantTimeCompare ==
  sigCompare.done =>
    \A other \in PresentedSignatures :
      Len(other) = Len(sigCompare.encodedSignature) =>
        StrictNotEqualsSteps(other, sigCompare.expectedEncodedSignature)
          = sigCompare.steps

====
